---- MODULE Spec2Model ----
(***************************************************************************)
(* EOG/IMU cursor control: the event detectors of eog_cursor/event_detector *)
(* and the two controllers of eog_cursor/cursor_control.                    *)
(*                                                                          *)
(* Time is counted in integer milliseconds (the source uses float seconds): *)
(* 0.05 s is 50, 1.0 s is 1000.  Comparisons are exact; float rounding of   *)
(* the timestamps is not modelled.                                          *)
(***************************************************************************)
EXTENDS Integers, Sequences, FiniteSets, TLC

(***************************************************************************)
(* config.py (milliseconds, ADC counts, raw gyro counts)                    *)
(***************************************************************************)
EOG_BASELINE == 2048
GYRO_DEADZONE == 300
BLINK_THRESHOLD == 3000
BLINK_MIN_DURATION == 50
BLINK_MAX_DURATION == 250
DOUBLE_BLINK_WINDOW == 600
DOUBLE_BLINK_COOLDOWN == 800
LONG_BLINK_MIN_DURATION == 400
LONG_BLINK_MAX_DURATION == 2500
LONG_BLINK_COOLDOWN == 1000
LOOK_UP_THRESHOLD == 2800
LOOK_DOWN_THRESHOLD == 1200
LOOK_RIGHT_THRESHOLD == 2800
LOOK_LEFT_THRESHOLD == 1200
HORIZONTAL_GAZE_COOLDOWN == 1000
SCROLL_COOLDOWN == 80
SCROLL_AMOUNT == 30
HEAD_ROLL_THRESHOLD == 3000
HEAD_ROLL_COOLDOWN == 1000
HEAD_ROLL_SUPPRESS_DURATION == 300
HEAD_ROLL_MAX_DURATION == 300
DOUBLE_NOD_THRESHOLD == 3000
DOUBLE_NOD_MAX_DURATION == 300
DOUBLE_NOD_WINDOW == 800
DOUBLE_NOD_COOLDOWN == 1000

\* event_detector.py reads config.TRIPLE_BLINK_WINDOW and
\* config.TRIPLE_BLINK_COOLDOWN, which config.py does not define; the values
\* are the specification's (section 4.4).
TRIPLE_BLINK_WINDOW == 600
TRIPLE_BLINK_COOLDOWN == 1000

\* _min_gaze_duration of the two gaze detectors
GAZE_MIN_DURATION == 100
HGAZE_MIN_DURATION == 150

\* last_event_time / last_trigger_time of a fresh detector: -100.0 s
FAR_PAST == -100000
\* Python's None for a timestamp field (_spike_start, _first_nod_time)
NoTime == -1

Abs(x) == IF x < 0 THEN -x ELSE x

(***************************************************************************)
(* Bounds of the exploration                                                *)
(***************************************************************************)
\* last timestamp fed to a stand-alone detector
MaxNow == 2000

\* timestamp of the first controller tick (time.time() is far from 0.0, the
\* initial value of the controller's last_*_time fields)
StartTime == 10000

VARIABLES
    now,          \* timestamp of the latest update call
    sample,       \* inputs of the latest call: eog_v, eog_h, gx, gy, gz
    frozen,       \* cursor_frozen argument of the latest roll / nod detector call
    blink,        \* the BlinkDetector object
    blink_event,  \* return value of the latest BlinkDetector.update
    gaze,         \* the GazeDetector object
    gaze_event,
    hgaze,        \* the HorizontalGazeDetector object
    horiz_event,
    roll,         \* the HeadRollDetector object
    roll_event,
    nod,          \* the DoubleNodDetector object
    nod_event,
    ctl,          \* the controller object (mode, state vector, last_*_time)
    actions,      \* the gui calls of the latest controller tick, in call order
    u,            \* the integrator input of the latest state-space tick
    \* history variables (not program state)
    before,         \* per detector / action class: time of the latest event
                  \* returned (action emitted) by an EARLIER call
    latest,         \* the same, the latest call included
    vel_before,   \* <<vel_x, vel_y>> at the start of the latest controller tick
    spike_last,   \* time of the latest sample with |gz| (|gx|) above threshold
    roll_ref,     \* a HeadRollDetector fed gz with cursor_frozen = the
    roll_ref_event, \* instantaneous horizontal gaze level, and its return value
    nod_ref,      \* a DoubleNodDetector fed gx the same way
    nod_ref_event,
    script,       \* position in the scripted stream, and its action counts
    pat,          \* the blink pattern read off the input: number n of high
                  \* runs of eog_v so far, first high sample s and first low
                  \* sample r of the latest, late: it began past the window
    held,         \* per gaze channel: the class of the latest sample and the
                  \* time of the first sample of the unbroken run of that class
    twin,         \* a freshly constructed controller fed the same packets
    reader,       \* the SerialReader object (_error_count)
    kf,           \* a GyroKalmanFilter object (x, P)
    filt          \* an EOGLowPassFilter object (zi)

detVars == <<blink, blink_event, gaze, gaze_event, hgaze, horiz_event,
             roll, roll_event, nod, nod_event>>
ctlVars == <<ctl, actions, u, vel_before, spike_last,
             roll_ref, roll_ref_event, nod_ref, nod_ref_event>>
ghostVars == <<pat, held, twin>>
vars == <<now, sample, frozen, detVars, ctlVars, before, latest, script,
          ghostVars, reader, kf, filt>>

(***************************************************************************)
(* BlinkDetector                                                            *)
(***************************************************************************)
BlinkDetectorInit ==
    [state |-> "IDLE", blink_start_time |-> 0, blink_end_time |-> 0,
     blink_count |-> 0, last_event_time |-> FAR_PAST]

\* the cooldown test `now - self.last_event_time > cooldown`
BlinkCooldownElapsed_Mut(t, last, cooldown) == t - last >= cooldown
BlinkCooldownElapsed(t, last, cooldown) == t - last > cooldown

\* the duration tests of the IN_BLINK release branch
TooShort_Mut(duration) == duration <= BLINK_MIN_DURATION
TooShort(duration) == duration < BLINK_MIN_DURATION
LongEnough_Mut(duration) == duration > LONG_BLINK_MIN_DURATION
LongEnough(duration) == duration >= LONG_BLINK_MIN_DURATION
WithinLongMax_Mut(duration) == duration < LONG_BLINK_MAX_DURATION
WithinLongMax(duration) == duration <= LONG_BLINK_MAX_DURATION

\* `elif self.blink_count >= 2`, the branch taken ahead of the long-blink
\* test; _Mut never takes it
SecondBlink_Mut(d) == FALSE
SecondBlink(d) == d.blink_count >= 2

\* IDLE that starts a blink without setting blink_count
BlinkIdle_KeepCount(d, is_high, t) ==
    IF is_high
    THEN [det |-> [d EXCEPT !.state = "IN_BLINK", !.blink_start_time = t],
          ev |-> "NONE"]
    ELSE [det |-> d, ev |-> "NONE"]

\* r.det is the detector after the call, r.ev the returned event
BlinkIdle(d, is_high, t) ==
    IF is_high
    THEN [det |-> [d EXCEPT !.state = "IN_BLINK", !.blink_start_time = t,
                            !.blink_count = 1],
          ev |-> "NONE"]
    ELSE [det |-> d, ev |-> "NONE"]

BlinkInBlink(d, is_high, t) ==
    LET duration == t - d.blink_start_time
        toIdle == [det |-> [d EXCEPT !.state = "IDLE"], ev |-> "NONE"]
    IN  IF is_high THEN [det |-> d, ev |-> "NONE"]
        ELSE IF TooShort(duration) THEN toIdle
        ELSE IF d.blink_count >= 3 THEN
            IF /\ duration <= BLINK_MAX_DURATION
               /\ BlinkCooldownElapsed(t, d.last_event_time, TRIPLE_BLINK_COOLDOWN)
            THEN [det |-> [d EXCEPT !.state = "IDLE", !.last_event_time = t],
                  ev |-> "TRIPLE_BLINK"]
            ELSE toIdle
        ELSE IF SecondBlink(d) THEN
            IF duration <= BLINK_MAX_DURATION
            THEN [det |-> [d EXCEPT !.blink_end_time = t, !.state = "WAIT_THIRD"],
                  ev |-> "NONE"]
            ELSE toIdle
        ELSE IF LongEnough(duration) THEN
            IF /\ WithinLongMax(duration)
               /\ BlinkCooldownElapsed(t, d.last_event_time, LONG_BLINK_COOLDOWN)
            THEN [det |-> [d EXCEPT !.state = "IDLE", !.last_event_time = t],
                  ev |-> "LONG_BLINK"]
            ELSE toIdle
        ELSE IF duration <= BLINK_MAX_DURATION
            THEN [det |-> [d EXCEPT !.blink_end_time = t, !.state = "WAIT_SECOND"],
                  ev |-> "NONE"]
            ELSE toIdle

\* WAIT_SECOND that never times out
BlinkWaitSecond_NoTimeout(d, is_high, t) ==
    IF is_high /\ t - d.blink_end_time < DOUBLE_BLINK_WINDOW
    THEN [det |-> [d EXCEPT !.state = "IN_BLINK", !.blink_start_time = t,
                            !.blink_count = 2],
          ev |-> "NONE"]
    ELSE [det |-> d, ev |-> "NONE"]

BlinkWaitSecond(d, is_high, t) ==
    LET elapsed == t - d.blink_end_time
    IN  IF is_high /\ elapsed < DOUBLE_BLINK_WINDOW
        THEN [det |-> [d EXCEPT !.state = "IN_BLINK", !.blink_start_time = t,
                                !.blink_count = 2],
              ev |-> "NONE"]
        ELSE IF elapsed >= DOUBLE_BLINK_WINDOW
        THEN [det |-> [d EXCEPT !.state = "IDLE"], ev |-> "NONE"]
        ELSE [det |-> d, ev |-> "NONE"]

\* WAIT_THIRD without the wait: the double blink is reported on the first
\* low sample
BlinkWaitThird_NoWait(d, is_high, t) ==
    LET elapsed == t - d.blink_end_time
    IN  IF is_high /\ elapsed < TRIPLE_BLINK_WINDOW
        THEN [det |-> [d EXCEPT !.state = "IN_BLINK", !.blink_start_time = t,
                                !.blink_count = 3],
              ev |-> "NONE"]
        ELSE IF BlinkCooldownElapsed(t, d.last_event_time, DOUBLE_BLINK_COOLDOWN)
             THEN [det |-> [d EXCEPT !.last_event_time = t, !.state = "IDLE"],
                   ev |-> "DOUBLE_BLINK"]
             ELSE [det |-> [d EXCEPT !.state = "IDLE"], ev |-> "NONE"]

\* WAIT_THIRD that keeps waiting while the cooldown blocks the double blink
BlinkWaitThird_Deferred(d, is_high, t) ==
    LET elapsed == t - d.blink_end_time
    IN  IF is_high /\ elapsed < TRIPLE_BLINK_WINDOW
        THEN [det |-> [d EXCEPT !.state = "IN_BLINK", !.blink_start_time = t,
                                !.blink_count = 3],
              ev |-> "NONE"]
        ELSE IF /\ elapsed >= TRIPLE_BLINK_WINDOW
                /\ BlinkCooldownElapsed(t, d.last_event_time, DOUBLE_BLINK_COOLDOWN)
        THEN [det |-> [d EXCEPT !.last_event_time = t, !.state = "IDLE"],
              ev |-> "DOUBLE_BLINK"]
        ELSE [det |-> d, ev |-> "NONE"]

\* WAIT_THIRD that never times out
BlinkWaitThird_NoTimeout(d, is_high, t) ==
    IF is_high /\ t - d.blink_end_time < TRIPLE_BLINK_WINDOW
    THEN [det |-> [d EXCEPT !.state = "IN_BLINK", !.blink_start_time = t,
                            !.blink_count = 3],
          ev |-> "NONE"]
    ELSE [det |-> d, ev |-> "NONE"]

\* WAIT_THIRD that does not take a third blink
BlinkWaitThird_NoThird(d, is_high, t) ==
    LET elapsed == t - d.blink_end_time
    IN  IF elapsed >= TRIPLE_BLINK_WINDOW
        THEN IF BlinkCooldownElapsed(t, d.last_event_time, DOUBLE_BLINK_COOLDOWN)
             THEN [det |-> [d EXCEPT !.last_event_time = t, !.state = "IDLE"],
                   ev |-> "DOUBLE_BLINK"]
             ELSE [det |-> [d EXCEPT !.state = "IDLE"], ev |-> "NONE"]
        ELSE [det |-> d, ev |-> "NONE"]

BlinkWaitThird(d, is_high, t) ==
    LET elapsed == t - d.blink_end_time
    IN  IF is_high /\ elapsed < TRIPLE_BLINK_WINDOW
        THEN [det |-> [d EXCEPT !.state = "IN_BLINK", !.blink_start_time = t,
                                !.blink_count = 3],
              ev |-> "NONE"]
        ELSE IF elapsed >= TRIPLE_BLINK_WINDOW
        THEN IF BlinkCooldownElapsed(t, d.last_event_time, DOUBLE_BLINK_COOLDOWN)
             THEN [det |-> [d EXCEPT !.last_event_time = t, !.state = "IDLE"],
                   ev |-> "DOUBLE_BLINK"]
             ELSE [det |-> [d EXCEPT !.state = "IDLE"], ev |-> "NONE"]
        ELSE [det |-> d, ev |-> "NONE"]

BlinkUpdate(d, e, t) ==
    LET is_high == e > BLINK_THRESHOLD
    IN  CASE d.state = "IDLE" -> BlinkIdle(d, is_high, t)
          [] d.state = "IN_BLINK" -> BlinkInBlink(d, is_high, t)
          [] d.state = "WAIT_SECOND" -> BlinkWaitSecond(d, is_high, t)
          [] d.state = "WAIT_THIRD" -> BlinkWaitThird(d, is_high, t)

\* reset() that leaves last_event_time as it is
BlinkReset_KeepCooldown(d) == [d EXCEPT !.state = "IDLE", !.blink_count = 0]

\* reset() that leaves the FSM state as it is
BlinkReset_Mut(d) == [d EXCEPT !.blink_count = 0, !.last_event_time = FAR_PAST]
BlinkReset(d) ==
    [d EXCEPT !.state = "IDLE", !.blink_count = 0, !.last_event_time = FAR_PAST]

(***************************************************************************)
(* GazeDetector (vertical)                                                  *)
(***************************************************************************)
GazeDetectorInit == [gaze_start_time |-> 0, current_gaze |-> "NONE"]

\* `now - self.gaze_start_time >= self._min_gaze_duration`
GazeHeld_Mut(t, start) == t - start > GAZE_MIN_DURATION
GazeHeld(t, start) == t - start >= GAZE_MIN_DURATION

GazeUpdate(d, e, t) ==
    IF e > BLINK_THRESHOLD
    THEN [det |-> [d EXCEPT !.current_gaze = "NONE"], ev |-> "NONE"]
    ELSE IF ~(e > LOOK_UP_THRESHOLD) /\ ~(e < LOOK_DOWN_THRESHOLD)
    THEN [det |-> [d EXCEPT !.current_gaze = "NONE"], ev |-> "NONE"]
    ELSE LET new_gaze == IF e > LOOK_UP_THRESHOLD THEN "LOOK_UP" ELSE "LOOK_DOWN"
         IN  IF new_gaze # d.current_gaze
             THEN [det |-> [d EXCEPT !.current_gaze = new_gaze,
                                     !.gaze_start_time = t],
                   ev |-> "NONE"]
             ELSE IF GazeHeld(t, d.gaze_start_time)
             THEN [det |-> d, ev |-> d.current_gaze]
             ELSE [det |-> d, ev |-> "NONE"]

GazeReset(d) == [d EXCEPT !.current_gaze = "NONE"]

(***************************************************************************)
(* HorizontalGazeDetector                                                   *)
(***************************************************************************)
HorizontalGazeDetectorInit ==
    [gaze_start_time |-> 0, current_gaze |-> "NONE", last_trigger_time |-> FAR_PAST]

\* `now - self.last_trigger_time > config.HORIZONTAL_GAZE_COOLDOWN`
HGazeCooldownElapsed_Mut(t, last) == t - last >= HORIZONTAL_GAZE_COOLDOWN
HGazeCooldownElapsed(t, last) == t - last > HORIZONTAL_GAZE_COOLDOWN

\* `now - self.gaze_start_time >= self._min_gaze_duration`
HGazeHeld_Mut(t, start) == t - start >= GAZE_MIN_DURATION
HGazeHeld(t, start) == t - start >= HGAZE_MIN_DURATION

HGazeUpdate(d, e, t) ==
    IF ~(e > LOOK_RIGHT_THRESHOLD) /\ ~(e < LOOK_LEFT_THRESHOLD)
    THEN [det |-> [d EXCEPT !.current_gaze = "NONE"], ev |-> "NONE"]
    ELSE LET new_gaze == IF e > LOOK_RIGHT_THRESHOLD THEN "LOOK_RIGHT"
                                                     ELSE "LOOK_LEFT"
         IN  IF new_gaze # d.current_gaze
             THEN [det |-> [d EXCEPT !.current_gaze = new_gaze,
                                     !.gaze_start_time = t],
                   ev |-> "NONE"]
             ELSE IF /\ HGazeHeld(t, d.gaze_start_time)
                     /\ HGazeCooldownElapsed(t, d.last_trigger_time)
             THEN [det |-> [d EXCEPT !.last_trigger_time = t],
                   ev |-> d.current_gaze]
             ELSE [det |-> d, ev |-> "NONE"]

HGazeReset(d) ==
    [d EXCEPT !.current_gaze = "NONE", !.last_trigger_time = FAR_PAST]

(***************************************************************************)
(* HeadRollDetector                                                         *)
(***************************************************************************)
HeadRollDetectorInit ==
    [last_trigger_time |-> FAR_PAST, spike_start |-> NoTime,
     spike_direction |-> "None", suppressed |-> FALSE]

\* `now - self.last_trigger_time > config.HEAD_ROLL_COOLDOWN`
RollCooldownElapsed_Mut(t, last) == t - last >= HEAD_ROLL_COOLDOWN
RollCooldownElapsed(t, last) == t - last > HEAD_ROLL_COOLDOWN

\* an unfrozen sample that also forgets the latest flick
RollUnfrozen_ClearCooldown(d) ==
    [d EXCEPT !.spike_start = NoTime, !.spike_direction = "None",
              !.suppressed = FALSE, !.last_trigger_time = FAR_PAST]

\* the `if not cursor_frozen` branch; _Mut keeps the suppressed latch
RollUnfrozen_Mut(d) ==
    [d EXCEPT !.spike_start = NoTime, !.spike_direction = "None"]
RollUnfrozen(d) ==
    [d EXCEPT !.spike_start = NoTime, !.spike_direction = "None",
              !.suppressed = FALSE]

\* `duration <= config.HEAD_ROLL_MAX_DURATION` of the release branch
RollQuick_Mut(duration) == duration <= HEAD_ROLL_MAX_DURATION + HEAD_ROLL_MAX_DURATION
RollQuick(duration) == duration <= HEAD_ROLL_MAX_DURATION

RollUpdate(d, gz, t, cursor_frozen) ==
    IF ~cursor_frozen
    THEN [det |-> RollUnfrozen(d), ev |-> "None"]
    ELSE IF Abs(gz) > HEAD_ROLL_THRESHOLD
    THEN IF d.suppressed THEN [det |-> d, ev |-> "None"]
         ELSE IF d.spike_start = NoTime
         THEN [det |-> [d EXCEPT !.spike_start = t,
                                 !.spike_direction =
                                     IF gz > 0 THEN "right" ELSE "left"],
               ev |-> "None"]
         ELSE IF t - d.spike_start > HEAD_ROLL_MAX_DURATION
         THEN [det |-> [d EXCEPT !.spike_start = NoTime,
                                 !.spike_direction = "None",
                                 !.suppressed = TRUE],
               ev |-> "None"]
         ELSE [det |-> d, ev |-> "None"]
    ELSE IF d.suppressed
         THEN [det |-> [d EXCEPT !.suppressed = FALSE], ev |-> "None"]
         ELSE IF d.spike_start # NoTime
         THEN LET duration == t - d.spike_start
                  cleared == [d EXCEPT !.spike_start = NoTime,
                                       !.spike_direction = "None"]
              IN  IF /\ RollQuick(duration)
                     /\ RollCooldownElapsed(t, d.last_trigger_time)
                  THEN [det |-> [cleared EXCEPT !.last_trigger_time = t],
                        ev |-> "switch_window"]
                  ELSE [det |-> cleared, ev |-> "None"]
         ELSE [det |-> d, ev |-> "None"]

RollReset(d) ==
    [d EXCEPT !.last_trigger_time = FAR_PAST, !.spike_start = NoTime,
              !.spike_direction = "None", !.suppressed = FALSE]

(***************************************************************************)
(* DoubleNodDetector                                                        *)
(***************************************************************************)
DoubleNodDetectorInit ==
    [last_trigger_time |-> FAR_PAST, spike_start |-> NoTime,
     suppressed |-> FALSE, first_nod_time |-> NoTime]

\* `now - self.last_trigger_time > config.DOUBLE_NOD_COOLDOWN`
NodCooldownElapsed_Mut(t, last) == t - last >= DOUBLE_NOD_COOLDOWN
NodCooldownElapsed(t, last) == t - last > DOUBLE_NOD_COOLDOWN

\* the trailing `Expire first nod if window passed` of the below-threshold branch
NodExpire(d, t) ==
    IF d.first_nod_time # NoTime /\ t - d.first_nod_time > DOUBLE_NOD_WINDOW
    THEN [d EXCEPT !.first_nod_time = NoTime]
    ELSE d

\* the `if not cursor_frozen` branch; _Mut keeps the first nod
NodUnfrozen_Mut(d) == [d EXCEPT !.spike_start = NoTime, !.suppressed = FALSE]
NodUnfrozen(d) ==
    [d EXCEPT !.spike_start = NoTime, !.suppressed = FALSE,
              !.first_nod_time = NoTime]

\* `now - self._first_nod_time <= config.DOUBLE_NOD_WINDOW` of the second nod
NodPaired_Mut(t, first) == t - first < DOUBLE_NOD_WINDOW
NodPaired(t, first) == t - first <= DOUBLE_NOD_WINDOW

NodUpdate(d, gx, t, cursor_frozen) ==
    IF ~cursor_frozen
    THEN [det |-> NodUnfrozen(d), ev |-> "None"]
    ELSE IF Abs(gx) > DOUBLE_NOD_THRESHOLD
    THEN IF d.suppressed THEN [det |-> d, ev |-> "None"]
         ELSE IF d.spike_start = NoTime
         THEN [det |-> [d EXCEPT !.spike_start = t], ev |-> "None"]
         ELSE IF t - d.spike_start > DOUBLE_NOD_MAX_DURATION
         THEN [det |-> [d EXCEPT !.spike_start = NoTime, !.suppressed = TRUE],
               ev |-> "None"]
         ELSE [det |-> d, ev |-> "None"]
    ELSE IF d.suppressed
         THEN [det |-> NodExpire([d EXCEPT !.suppressed = FALSE], t),
               ev |-> "None"]
         ELSE IF d.spike_start # NoTime
         THEN LET duration == t - d.spike_start
                  cleared == [d EXCEPT !.spike_start = NoTime]
              IN  IF duration <= DOUBLE_NOD_MAX_DURATION
                  THEN IF cleared.first_nod_time # NoTime
                       THEN IF /\ NodPaired(t, cleared.first_nod_time)
                               /\ NodCooldownElapsed(t, cleared.last_trigger_time)
                            THEN [det |-> [cleared EXCEPT
                                              !.first_nod_time = NoTime,
                                              !.last_trigger_time = t],
                                  ev |-> "center_cursor"]
                            ELSE [det |-> NodExpire([cleared EXCEPT
                                                       !.first_nod_time = t], t),
                                  ev |-> "None"]
                       ELSE [det |-> NodExpire([cleared EXCEPT
                                                  !.first_nod_time = t], t),
                             ev |-> "None"]
                  ELSE [det |-> NodExpire(cleared, t), ev |-> "None"]
         ELSE [det |-> NodExpire(d, t), ev |-> "None"]

NodReset(d) ==
    [d EXCEPT !.last_trigger_time = FAR_PAST, !.spike_start = NoTime,
              !.suppressed = FALSE, !.first_nod_time = NoTime]

(***************************************************************************)
(* ThresholdController / StateSpaceController                               *)
(*                                                                          *)
(* The state-space integrator is held in scaled integers: a velocity v is   *)
(* stored as v / SS_SENSITIVITY = 20 v, a position p as                     *)
(* p / (SS_DT * SS_SENSITIVITY) = 4000 p, so that A and B have the entries  *)
(* 1, 19/20 and 1.  The product with 19/20 is truncated toward zero (the    *)
(* source holds floats).  The proportional controller's dx, dy are in units *)
(* of CURSOR_SENSITIVITY = 0.01 pixel, i.e. dx = gy.                        *)
(***************************************************************************)
\* SS_VELOCITY_RETAIN = 0.95 = 19/20
VelRetainNum == 19
VelRetainDen == 20
\* `abs(dx) > 0.1` in position units (0.1 * 4000)
MoveMin == 400

TruncDiv(a, b) == IF a >= 0 THEN a \div b ELSE -((-a) \div b)

GazeVertical(p) == p.eog_v > LOOK_UP_THRESHOLD \/ p.eog_v < LOOK_DOWN_THRESHOLD
GazeHorizontal(p) == p.eog_h > LOOK_RIGHT_THRESHOLD \/ p.eog_h < LOOK_LEFT_THRESHOLD
HeadRolling(p) == Abs(p.gz) > HEAD_ROLL_THRESHOLD
HeadNodding(p) == Abs(p.gx) > DOUBLE_NOD_THRESHOLD

\* any_action, evaluated after last_roll_time / last_nod_time were refreshed
AnyAction_NoHorizontal(p, t, last_roll_time, last_nod_time) ==
    \/ GazeVertical(p)
    \/ HeadRolling(p) \/ HeadNodding(p)
    \/ t - last_roll_time < HEAD_ROLL_SUPPRESS_DURATION
    \/ t - last_nod_time < HEAD_ROLL_SUPPRESS_DURATION
AnyAction_NoSpike(p, t, last_roll_time, last_nod_time) ==
    GazeVertical(p) \/ GazeHorizontal(p)
AnyAction(p, t, last_roll_time, last_nod_time) ==
    \/ GazeVertical(p) \/ GazeHorizontal(p)
    \/ HeadRolling(p) \/ HeadNodding(p)
    \/ t - last_roll_time < HEAD_ROLL_SUPPRESS_DURATION
    \/ t - last_nod_time < HEAD_ROLL_SUPPRESS_DURATION

\* deadzone gate of one axis; _Mut lets a reading equal to the deadzone pass
Gated_Mut(g) == IF Abs(g) >= GYRO_DEADZONE THEN g ELSE 0
Gated(g) == IF Abs(g) > GYRO_DEADZONE THEN g ELSE 0

\* proportional controller: <<dx, dy>> handed to moveRel (<<0, 0>>: no call)
ThresholdMove(p, any_action) ==
    IF any_action THEN <<0, 0>> ELSE <<Gated(p.gy), Gated(p.gx)>>

\* the integrator step without the freeze: any_action zeroes the input only
StateSpaceStep_NoFreeze(state, p, any_action) ==
    LET uu == IF any_action THEN <<0, 0>> ELSE <<Gated(p.gy), Gated(p.gx)>>
    IN  [u |-> uu,
         state |-> <<state[1] + state[2],
                     TruncDiv(VelRetainNum * state[2], VelRetainDen) + uu[1],
                     state[3] + state[4],
                     TruncDiv(VelRetainNum * state[4], VelRetainDen) + uu[2]>>]

\* state-space controller: [u, state (before the position flush)]
StateSpaceStep(state, p, any_action) ==
    LET uu == IF any_action THEN <<0, 0>> ELSE <<Gated(p.gy), Gated(p.gx)>>
        vx == IF any_action THEN 0 ELSE state[2]
        vy == IF any_action THEN 0 ELSE state[4]
    IN  [u |-> uu,
         state |-> <<state[1] + vx,
                     TruncDiv(VelRetainNum * vx, VelRetainDen) + uu[1],
                     state[3] + vy,
                     TruncDiv(VelRetainNum * vy, VelRetainDen) + uu[2]>>]

\* max(1, int(abs(gx) / deadzone * SCROLL_AMOUNT)): the float product is
\* truncated toward zero.  The float quotient abs(gx) / 300 is inexact, and
\* for the |gx| of FloatShort (all such values up to 5000) the product falls
\* just below the integer |gx| / 10, so that int() yields one less.
FloatShort == {1230, 2450, 2460, 2470, 4900, 4920, 4940}
ScrollAmount(gx) ==
    LET a == (Abs(gx) * SCROLL_AMOUNT) \div GYRO_DEADZONE
             - (IF Abs(gx) \in FloatShort THEN 1 ELSE 0)
    IN  IF a > 1 THEN a ELSE 1

\* section 2: the gui calls made for a blink event
BlinkDispatch_Mut(ev) ==
    IF ev = "DOUBLE_BLINK" \/ ev = "TRIPLE_BLINK" THEN <<(<<"LeftClick">>)>>
    ELSE IF ev = "LONG_BLINK" THEN <<(<<"RightClick">>)>>
    ELSE <<>>
BlinkDispatch(ev) ==
    IF ev = "DOUBLE_BLINK" THEN <<(<<"LeftClick">>)>>
    ELSE IF ev = "LONG_BLINK" THEN <<(<<"RightClick">>)>>
    ELSE <<>>

\* `now - self.last_scroll_time > config.SCROLL_COOLDOWN`
ScrollCooldownElapsed_Mut(t, last_scroll_time) == t - last_scroll_time > 0
ScrollCooldownElapsed(t, last_scroll_time) ==
    t - last_scroll_time > SCROLL_COOLDOWN

\* section 3: scroll fusion; the gui calls made
ScrollFusion(gaze_ev, gx, t, last_scroll_time) ==
    IF gaze_ev = "LOOK_UP" /\ gx < -GYRO_DEADZONE
    THEN IF ScrollCooldownElapsed(t, last_scroll_time)
         THEN <<(<<"ScrollUp", ScrollAmount(gx)>>)>> ELSE <<>>
    ELSE IF gaze_ev = "LOOK_DOWN" /\ gx > GYRO_DEADZONE
    THEN IF ScrollCooldownElapsed(t, last_scroll_time)
         THEN <<(<<"ScrollDown", ScrollAmount(gx)>>)>> ELSE <<>>
    ELSE <<>>

\* section 4: the roll detector is called as update(gz, now), cursor_frozen
\* takes its default False
RollDispatch(ev) == IF ev = "switch_window" THEN <<(<<"SwitchWindow">>)>> ELSE <<>>

\* section 5: the nod detector is called as update(gx, now); the result is
\* compared with "double_click"
NodDispatch(ev) == IF ev = "double_click" THEN <<(<<"DoubleClick">>)>> ELSE <<>>

\* section 6: navigation fusion; the gui calls made
NavFusion(horiz_ev, gy, t, last_nav_time) ==
    IF horiz_ev = "LOOK_LEFT" /\ gy < -GYRO_DEADZONE
    THEN IF t - last_nav_time > HORIZONTAL_GAZE_COOLDOWN
         THEN <<(<<"NavBack">>)>> ELSE <<>>
    ELSE IF horiz_ev = "LOOK_RIGHT" /\ gy > GYRO_DEADZONE
    THEN IF t - last_nav_time > HORIZONTAL_GAZE_COOLDOWN
         THEN <<(<<"NavForward">>)>> ELSE <<>>
    ELSE <<>>

\* `Reset position accumulator, keep velocity`; _Mut keeps the position
Flush_Mut(state) == state
Flush(state) == <<0, state[2], 0, state[4]>>

\* the gui calls of one update in the order they are made: moveRel of
\* section 1, then the calls of sections 2 to 6
CallOrder_Mut(moveActs, commandActs) == commandActs \o moveActs
CallOrder(moveActs, commandActs) == moveActs \o commandActs

\* update(eog_v, eog_h, gx, gy, gz) of either controller at time.time() = t:
\* everything the call computes, as one record
ControllerUpdate(c, B, G, H, R, N, p, t) ==
    LET lrt == IF HeadRolling(p) THEN t ELSE c.last_roll_time
        lnt == IF HeadNodding(p) THEN t ELSE c.last_nod_time
        any_action == AnyAction(p, t, lrt, lnt)
        tm == ThresholdMove(p, any_action)
        ss == StateSpaceStep(c.state, p, any_action)
        moveActs ==
            IF c.mode = "threshold"
            THEN IF tm[1] # 0 \/ tm[2] # 0
                 THEN <<(<<"MoveCursor", tm[1], tm[2]>>)>> ELSE <<>>
            ELSE IF Abs(ss.state[1]) > MoveMin \/ Abs(ss.state[3]) > MoveMin
                 THEN <<(<<"MoveCursor", ss.state[1], ss.state[3]>>)>> ELSE <<>>
        bl == BlinkUpdate(B, p.eog_v, t)
        gz == GazeUpdate(G, p.eog_v, t)
        scrollActs == ScrollFusion(gz.ev, p.gx, t, c.last_scroll_time)
        rl == RollUpdate(R, p.gz, t, FALSE)
        nd == NodUpdate(N, p.gx, t, FALSE)
        hz == HGazeUpdate(H, p.eog_h, t)
        navActs == NavFusion(hz.ev, p.gy, t, c.last_nav_time)
    IN  [ctl |-> [c EXCEPT
                    !.state = IF c.mode = "threshold" THEN @
                              ELSE Flush(ss.state),
                    !.last_roll_time = lrt,
                    !.last_nod_time = lnt,
                    !.last_scroll_time = IF scrollActs # <<>> THEN t ELSE @,
                    !.last_nav_time = IF navActs # <<>> THEN t ELSE @],
         u |-> IF c.mode = "threshold" THEN <<0, 0>> ELSE ss.u,
         any_action |-> any_action,
         blink |-> bl, gaze |-> gz, roll |-> rl, nod |-> nd, hgaze |-> hz,
         actions |-> CallOrder(moveActs,
                               BlinkDispatch(bl.ev) \o scrollActs
                               \o RollDispatch(rl.ev) \o NodDispatch(nd.ev)
                               \o navActs)]

\* reset() that keeps the integrator state
ControllerReset_Mut(c) ==
    [c EXCEPT !.last_scroll_time = 0, !.last_nav_time = 0,
              !.last_roll_time = 0, !.last_nod_time = 0]
\* reset() of either controller, the detectors apart (ThresholdController
\* holds no integrator state)
ControllerReset(c) ==
    [c EXCEPT !.state = <<0, 0, 0, 0>>,
              !.last_scroll_time = 0, !.last_nav_time = 0,
              !.last_roll_time = 0, !.last_nod_time = 0]

(***************************************************************************)
(* Initial state: freshly constructed detectors and controller              *)
(***************************************************************************)
IdleSample == [eog_v |-> EOG_BASELINE, eog_h |-> EOG_BASELINE,
               gx |-> 0, gy |-> 0, gz |-> 0]

Never == [blink |-> FAR_PAST, hgaze |-> FAR_PAST, roll |-> FAR_PAST,
          nod |-> FAR_PAST, scroll |-> FAR_PAST, nav |-> FAR_PAST,
          switch |-> FAR_PAST, nodact |-> FAR_PAST]

ControllerInit(mode) ==
    [mode |-> mode, state |-> <<0, 0, 0, 0>>,
     last_scroll_time |-> 0, last_nav_time |-> 0,
     last_roll_time |-> 0, last_nod_time |-> 0]

(***************************************************************************)
(* GyroKalmanFilter (signal_processing.py).  The floats of x, P, Q and R    *)
(* are held as integers in units of 1/FScale; a product of two of them      *)
(* divided by the innovation covariance is computed exactly and truncated   *)
(* towards zero.                                                            *)
(***************************************************************************)
FScale == 100000

\* <<q, r>> with a * b = q * c + r and 0 <= r < c, for a, b >= 0 and c > 0,
\* built from the binary digits of b so that no intermediate value exceeds
\* 2 * c + a
RECURSIVE MulDivNat(_, _, _)
MulDivNat(a, b, c) ==
    IF b = 0 THEN <<0, 0>>
    ELSE LET h == MulDivNat(a, b \div 2, c)
             r2 == 2 * h[2] + (b % 2) * a
         IN  <<2 * h[1] + r2 \div c, r2 % c>>

\* a * b / c
MulDiv(a, b, c) ==
    LET q == MulDivNat(Abs(a), Abs(b), c)[1]
    IN  IF (a < 0) = (b < 0) THEN q ELSE -q

KALMAN_Q_OMEGA == 1000 * FScale
KALMAN_Q_BIAS == FScale \div 1000
KALMAN_R == 500 * FScale

\* F: omega has no memory, bias persists; H: z = omega + bias
KalmanF == <<(<<0, 0>>), <<0, 1>>>>
KalmanH == <<1, 1>>
KalmanQ == <<(<<KALMAN_Q_OMEGA, 0>>), <<0, KALMAN_Q_BIAS>>>>

GyroKalmanFilterInit ==
    [x |-> <<0, 0>>,
     P |-> <<(<<1000 * FScale, 0>>), <<0, 1000 * FScale>>>>]

\* x_pred = F @ x; _Mut forgets the bias as well
KalmanPredict_Mut(F, x) == <<0, 0>>
KalmanPredict(F, x) ==
    <<F[1][1] * x[1] + F[1][2] * x[2], F[2][1] * x[1] + F[2][2] * x[2]>>

\* F @ P @ F.T + Q
KalmanPredictCov(F, P, Q) ==
    LET FP == [i \in 1..2 |-> [j \in 1..2 |->
                  F[i][1] * P[1][j] + F[i][2] * P[2][j]]]
    IN  [i \in 1..2 |-> [j \in 1..2 |->
            FP[i][1] * F[j][1] + FP[i][2] * F[j][2] + Q[i][j]]]

\* GyroKalmanFilter.update(z): the filter afterwards and the value returned
KalmanUpdate(k, z) ==
    LET x_pred == KalmanPredict(KalmanF, k.x)
        P_pred == KalmanPredictCov(KalmanF, k.P, KalmanQ)
        y == z - (KalmanH[1] * x_pred[1] + KalmanH[2] * x_pred[2])
        \* P_pred @ H.T and H @ P_pred
        PHt == [i \in 1..2 |->
                   P_pred[i][1] * KalmanH[1] + P_pred[i][2] * KalmanH[2]]
        HP == [j \in 1..2 |->
                   KalmanH[1] * P_pred[1][j] + KalmanH[2] * P_pred[2][j]]
        S == KalmanH[1] * PHt[1] + KalmanH[2] * PHt[2] + KALMAN_R
        \* K = PHt / S is applied as a ratio
        x == [i \in 1..2 |-> x_pred[i] + MulDiv(PHt[i], y, S)]
        P == [i \in 1..2 |-> [j \in 1..2 |->
                  P_pred[i][j] - MulDiv(PHt[i], HP[j], S)]]
    IN  [kf |-> [x |-> x, P |-> P], omega |-> x[1]]

\* get_bias()
GetBias(k) == k.x[2]

(***************************************************************************)
(* EOGLowPassFilter (signal_processing.py).  Filter coefficients and the    *)
(* steady-state template are held in units of 1/CScale, samples and filter  *)
(* memory in units of 1/FScale.                                             *)
(***************************************************************************)
CScale == 100000000

\* butter(4, 30 / (200 / 2), btype="low", output="sos"): two second-order
\* sections [b0, b1, b2, a0, a1, a2], the gain carried by the first
ButterSos ==
    <<[b |-> <<1856301, 3712602, 1856301>>,
       a |-> <<CScale, -67274091, 14453520>>],
      [b |-> <<CScale, 2 * CScale, CScale>>,
       a |-> <<CScale, -89765794, 52718690>>]>>

\* lfilter_zi(b, a) of one section: the memory of the section in the steady
\* state of a unit step
LfilterZi(sec) ==
    LET b == sec.b
        a == sec.a
        B1 == b[2] - MulDiv(a[2], b[1], CScale)
        B2 == b[3] - MulDiv(a[3], b[1], CScale)
        z1 == MulDiv(B1 + B2, CScale, a[1] + a[2] + a[3])
        z2 == MulDiv(a[1] + a[2], z1, CScale) - B1
    IN  <<z1, z2>>

\* b.sum() / a.sum()
DcGain(sec) ==
    MulDiv(sec.b[1] + sec.b[2] + sec.b[3], CScale,
           sec.a[1] + sec.a[2] + sec.a[3])

\* sosfilt_zi(sos): each section's lfilter_zi scaled by the gain of the
\* sections before it
SosfiltZi(sos) ==
    LET zi1 == LfilterZi(sos[1])
        zi2 == LfilterZi(sos[2])
        scale == DcGain(sos[1])
    IN  <<zi1, <<MulDiv(zi2[1], scale, CScale), MulDiv(zi2[2], scale, CScale)>>>>

\* zi is None until the first sample (held as the empty sequence)
EOGLowPassFilterInit == [zi |-> <<>>]

\* `self.zi = self._zi_template * sample`; _Mut starts from a memory of zero
FilterSeed_Mut(template, x) == <<(<<0, 0>>), <<0, 0>>>>
FilterSeed(template, x) ==
    [i \in 1..2 |-> [j \in 1..2 |-> MulDiv(template[i][j], x, CScale)]]

\* one section of sosfilt on one sample (direct form II transposed)
SosSection(sec, z, x) ==
    LET y == MulDiv(sec.b[1], x, CScale) + z[1]
    IN  [y |-> y,
         z |-> <<MulDiv(sec.b[2], x, CScale) - MulDiv(sec.a[2], y, CScale) + z[2],
                 MulDiv(sec.b[3], x, CScale) - MulDiv(sec.a[3], y, CScale)>>]

\* filter_sample(sample): the filter afterwards and the value returned
FilterSample(f, x) ==
    LET zi == IF f.zi = <<>> THEN FilterSeed(SosfiltZi(ButterSos), x) ELSE f.zi
        s1 == SosSection(ButterSos[1], zi[1], x)
        s2 == SosSection(ButterSos[2], zi[2], s1.y)
    IN  [filt |-> [zi |-> <<s1.z, s2.z>>], filtered |-> s2.y]

\* reset()
FilterReset(f) == [f EXCEPT !.zi = <<>>]

InitObjects ==
    /\ sample = IdleSample
    /\ frozen = FALSE
    /\ blink = BlinkDetectorInit /\ blink_event = "NONE"
    /\ gaze = GazeDetectorInit /\ gaze_event = "NONE"
    /\ hgaze = HorizontalGazeDetectorInit /\ horiz_event = "NONE"
    /\ roll = HeadRollDetectorInit /\ roll_event = "None"
    /\ nod = DoubleNodDetectorInit /\ nod_event = "None"
    /\ actions = <<>>
    /\ u = <<0, 0>>
    /\ before = Never /\ latest = Never
    /\ vel_before = <<0, 0>>
    /\ spike_last = [roll |-> FAR_PAST, nod |-> FAR_PAST]
    /\ roll_ref = HeadRollDetectorInit /\ roll_ref_event = "None"
    /\ nod_ref = DoubleNodDetectorInit /\ nod_ref_event = "None"
    /\ pat = [n |-> 0, s |-> NoTime, r |-> NoTime, late |-> FALSE]
    /\ held = [v |-> [class |-> "NONE", since |-> 0],
               h |-> [class |-> "NONE", since |-> 0]]
    /\ twin = [on |-> FALSE]
    /\ reader = [error_count |-> 0]
    /\ kf = GyroKalmanFilterInit
    /\ filt = EOGLowPassFilterInit

\* history bookkeeping for one event class
Shift(h, l, class) == [h EXCEPT ![class] = l[class]]
Stamp(l, class, fired, t) == [l EXCEPT ![class] = IF fired THEN t ELSE @]

(***************************************************************************)
(* Stand-alone detectors: one detector object is driven by a caller that    *)
(* supplies the sample and a non-decreasing `now`, as the unit tests do.    *)
(***************************************************************************)
\* increments of `now` between two calls
DetSteps == {50, 100}
BlinkSamples == {EOG_BASELINE, 3500}
HGazeSamples == {EOG_BASELINE, 1000, 3000}
GyroSamples == {0, 4000, -4000}
\* eog_v values fed to the vertical gaze detector: baseline, either side of
\* LOOK_DOWN_THRESHOLD, of LOOK_UP_THRESHOLD and of BLINK_THRESHOLD
GazeSamples == {EOG_BASELINE, 1199, 1200, 2800, 2801, 3000, 3001}

\* the direction an eog_v (eog_h) level is classified to
VClass(e) ==
    IF e > LOOK_UP_THRESHOLD /\ e <= BLINK_THRESHOLD THEN "LOOK_UP"
    ELSE IF e < LOOK_DOWN_THRESHOLD THEN "LOOK_DOWN" ELSE "NONE"
HClass(e) ==
    IF e > LOOK_RIGHT_THRESHOLD THEN "LOOK_RIGHT"
    ELSE IF e < LOOK_LEFT_THRESHOLD THEN "LOOK_LEFT" ELSE "NONE"

\* `held` of one channel after a sample of class c at time t: the first
\* sample of the unbroken run of samples classified c (not kept for NONE)
HeldNext(h, c, t) ==
    IF c = "NONE" THEN [class |-> "NONE", since |-> 0]
    ELSE IF c = h.class THEN h
    ELSE [class |-> c, since |-> t]

InitDet ==
    /\ now = 0
    /\ InitObjects
    /\ ctl = ControllerInit("none")
    /\ script \in {[dut |-> d] : d \in {"blink", "gaze", "hgaze", "roll", "nod"}}

BlinkStep ==
    /\ script.dut = "blink"
    /\ \E dt \in DetSteps, e \in BlinkSamples :
         /\ now + dt <= MaxNow
         /\ now' = now + dt
         /\ sample' = [sample EXCEPT !.eog_v = e]
         /\ \E r \in {BlinkUpdate(blink, e, now + dt)} :
                /\ blink' = r.det
                /\ blink_event' = r.ev
                /\ before' = Shift(before, latest, "blink")
                /\ latest' = Stamp(latest, "blink", r.ev # "NONE", now + dt)
    /\ UNCHANGED <<frozen, gaze, gaze_event, hgaze, horiz_event, roll,
                   roll_event, nod, nod_event, ctlVars, script, ghostVars, reader, kf, filt>>

GazeStep ==
    /\ script.dut = "gaze"
    /\ \E dt \in DetSteps, e \in GazeSamples :
         /\ now + dt <= MaxNow
         /\ now' = now + dt
         /\ sample' = [sample EXCEPT !.eog_v = e]
         /\ held' = [held EXCEPT !.v = HeldNext(@, VClass(e), now + dt)]
         /\ \E r \in {GazeUpdate(gaze, e, now + dt)} :
                /\ gaze' = r.det
                /\ gaze_event' = r.ev
    /\ UNCHANGED <<frozen, blink, blink_event, hgaze, horiz_event, roll,
                   roll_event, nod, nod_event, ctlVars, before, latest, script,
                   pat, twin, reader, kf, filt>>

HGazeStep ==
    /\ script.dut = "hgaze"
    /\ \E dt \in DetSteps, e \in HGazeSamples :
         /\ now + dt <= MaxNow
         /\ now' = now + dt
         /\ sample' = [sample EXCEPT !.eog_h = e]
         /\ held' = [held EXCEPT !.h = HeldNext(@, HClass(e), now + dt)]
         /\ \E r \in {HGazeUpdate(hgaze, e, now + dt)} :
                /\ hgaze' = r.det
                /\ horiz_event' = r.ev
                /\ before' = Shift(before, latest, "hgaze")
                /\ latest' = Stamp(latest, "hgaze", r.ev # "NONE", now + dt)
    /\ UNCHANGED <<frozen, blink, blink_event, gaze, gaze_event, roll,
                   roll_event, nod, nod_event, ctlVars, script,
                   pat, twin, reader, kf, filt>>

RollStep ==
    /\ script.dut = "roll"
    /\ \E dt \in DetSteps, g \in GyroSamples, f \in BOOLEAN :
         /\ now + dt <= MaxNow
         /\ now' = now + dt
         /\ sample' = [sample EXCEPT !.gz = g]
         /\ frozen' = f
         /\ \E r \in {RollUpdate(roll, g, now + dt, f)} :
                /\ roll' = r.det
                /\ roll_event' = r.ev
                /\ before' = Shift(before, latest, "roll")
                /\ latest' = Stamp(latest, "roll", r.ev # "None", now + dt)
    /\ UNCHANGED <<blink, blink_event, gaze, gaze_event, hgaze, horiz_event,
                   nod, nod_event, ctlVars, script, ghostVars, reader, kf, filt>>

NodStep ==
    /\ script.dut = "nod"
    /\ \E dt \in DetSteps, g \in GyroSamples, f \in BOOLEAN :
         /\ now + dt <= MaxNow
         /\ now' = now + dt
         /\ sample' = [sample EXCEPT !.gx = g]
         /\ frozen' = f
         /\ \E r \in {NodUpdate(nod, g, now + dt, f)} :
                /\ nod' = r.det
                /\ nod_event' = r.ev
                /\ before' = Shift(before, latest, "nod")
                /\ latest' = Stamp(latest, "nod", r.ev # "None", now + dt)
    /\ UNCHANGED <<blink, blink_event, gaze, gaze_event, hgaze, horiz_event,
                   roll, roll_event, ctlVars, script, ghostVars, reader, kf, filt>>

NextDet == BlinkStep \/ GazeStep \/ HGazeStep \/ RollStep \/ NodStep
SpecDet == InitDet /\ [][NextDet]_vars

(***************************************************************************)
(* A stand-alone detector that is reset at some point of its run and fed    *)
(* the idle baseline (eog 2048, gyro 0) from then on.                       *)
(***************************************************************************)
DetKinds == {"blink", "gaze", "hgaze", "roll", "nod"}

\* reset() of the detector under test; script.from keeps the blink FSM state
\* the reset found
ResetDetector ==
    /\ script.dut \in DetKinds
    /\ script' = [dut |-> "reset", was |-> script.dut, from |-> blink.state]
    /\ blink' = IF script.dut = "blink" THEN BlinkReset(blink) ELSE blink
    /\ gaze' = IF script.dut = "gaze" THEN GazeReset(gaze) ELSE gaze
    /\ hgaze' = IF script.dut = "hgaze" THEN HGazeReset(hgaze) ELSE hgaze
    /\ roll' = IF script.dut = "roll" THEN RollReset(roll) ELSE roll
    /\ nod' = IF script.dut = "nod" THEN NodReset(nod) ELSE nod
    /\ before' = Never /\ latest' = Never
    /\ UNCHANGED <<now, sample, frozen, blink_event, gaze_event, horiz_event,
                   roll_event, nod_event, ctlVars, ghostVars, reader, kf, filt>>

\* one baseline sample to the detector that was reset
IdleFeed ==
    /\ script.dut = "reset"
    /\ \E dt \in DetSteps, f \in BOOLEAN :
         /\ now + dt <= MaxNow
         /\ now' = now + dt
         /\ sample' = IdleSample
         /\ frozen' = (f /\ script.was \in {"roll", "nod"})
         /\ \E b \in {BlinkUpdate(blink, IdleSample.eog_v, now + dt)},
               g \in {GazeUpdate(gaze, IdleSample.eog_v, now + dt)},
               h \in {HGazeUpdate(hgaze, IdleSample.eog_h, now + dt)},
               r \in {RollUpdate(roll, IdleSample.gz, now + dt, f)},
               n \in {NodUpdate(nod, IdleSample.gx, now + dt, f)} :
                /\ blink' = IF script.was = "blink" THEN b.det ELSE blink
                /\ blink_event' = IF script.was = "blink" THEN b.ev ELSE blink_event
                /\ gaze' = IF script.was = "gaze" THEN g.det ELSE gaze
                /\ gaze_event' = IF script.was = "gaze" THEN g.ev ELSE gaze_event
                /\ hgaze' = IF script.was = "hgaze" THEN h.det ELSE hgaze
                /\ horiz_event' = IF script.was = "hgaze" THEN h.ev ELSE horiz_event
                /\ roll' = IF script.was = "roll" THEN r.det ELSE roll
                /\ roll_event' = IF script.was = "roll" THEN r.ev ELSE roll_event
                /\ nod' = IF script.was = "nod" THEN n.det ELSE nod
                /\ nod_event' = IF script.was = "nod" THEN n.ev ELSE nod_event
    /\ UNCHANGED <<ctlVars, before, latest, script, ghostVars, reader, kf, filt>>

NextReset == NextDet \/ ResetDetector \/ IdleFeed
SpecReset == InitDet /\ [][NextReset]_vars

(***************************************************************************)
(* The blink detector alone.  `pat` follows the input, not the FSM: a       *)
(* pattern begins at a rising edge of eog_v that finds the FSM in IDLE and  *)
(* goes on while every completed run lasted BLINK_MIN_DURATION to           *)
(* BLINK_MAX_DURATION and the wait after it is shorter than the window.     *)
(***************************************************************************)
\* last timestamp fed in this setting
MaxPattern == 1600

IsHigh(e) == e > BLINK_THRESHOLD

NoPat == [n |-> 0, s |-> NoTime, r |-> NoTime, late |-> FALSE]
PatWindow(n) == IF n = 1 THEN DOUBLE_BLINK_WINDOW ELSE TRIPLE_BLINK_WINDOW
\* the latest run is complete and lasted BLINK_MIN_DURATION..BLINK_MAX_DURATION
ValidRun(p) ==
    /\ p.n >= 1 /\ p.r # NoTime
    /\ p.r - p.s >= BLINK_MIN_DURATION /\ p.r - p.s <= BLINK_MAX_DURATION
\* the pattern had ended by time t0
PatOver(p, t0) ==
    \/ p.n = 0
    \/ p.r # NoTime /\ (~ValidRun(p) \/ p.n = 3 \/ t0 - p.r >= PatWindow(p.n))

\* the pattern after a sample e at time t; t0 is the time and was_high the
\* level of the sample before it, st the FSM state the sample finds
PatNext(p, st, t0, was_high, e, t) ==
    LET base == IF PatOver(p, t0) THEN NoPat ELSE p
        run(k, l) == [n |-> k, s |-> t, r |-> NoTime, late |-> l]
    IN  IF IsHigh(e) /\ ~was_high
        THEN IF base.n = 0 THEN IF st = "IDLE" THEN run(1, FALSE) ELSE NoPat
             ELSE IF t - base.r < PatWindow(base.n) THEN run(base.n + 1, FALSE)
             ELSE IF base.n = 2 THEN run(3, TRUE)
             ELSE NoPat
        ELSE IF ~IsHigh(e) /\ was_high /\ base.n >= 1 /\ base.r = NoTime
        THEN [base EXCEPT !.r = t]
        ELSE base

InitBlink ==
    /\ now = 0
    /\ InitObjects
    /\ ctl = ControllerInit("none")
    /\ script = [dut |-> "blinkfeed"]

BlinkFeed ==
    /\ script.dut = "blinkfeed"
    /\ \E dt \in DetSteps, e \in BlinkSamples :
         /\ now + dt <= MaxPattern
         /\ now' = now + dt
         /\ sample' = [sample EXCEPT !.eog_v = e]
         /\ pat' = PatNext(pat, blink.state, now, IsHigh(sample.eog_v), e, now + dt)
         /\ \E r \in {BlinkUpdate(blink, e, now + dt)} :
                /\ blink' = r.det
                /\ blink_event' = r.ev
                /\ before' = Shift(before, latest, "blink")
                /\ latest' = Stamp(latest, "blink", r.ev # "NONE", now + dt)
    /\ UNCHANGED <<frozen, gaze, gaze_event, hgaze, horiz_event, roll,
                   roll_event, nod, nod_event, ctlVars, script,
                   held, twin, reader, kf, filt>>

NextBlink == BlinkFeed
SpecBlink == InitBlink /\ [][NextBlink]_vars

(***************************************************************************)
(* The blink detector through one long closure: samples are free up to      *)
(* MaxFree; after that eog_v may stay high but not rise again, and the feed *)
(* goes on for PostHold after the release.                                  *)
(***************************************************************************)
MaxFree == 400
MaxHold == 3200
PostHold == 700
\* eog_v values fed: baseline, exactly the threshold (not high), a blink
HoldSamples == {EOG_BASELINE, BLINK_THRESHOLD, 3500}

\* script.since: first sample of the unbroken run of samples at the level of
\* the latest; script.rise: first high sample of the latest high run
LevelSince(since, was_high, e, t) ==
    IF since = NoTime \/ IsHigh(e) # was_high THEN t ELSE since

InitHold ==
    /\ now = 0
    /\ InitObjects
    /\ ctl = ControllerInit("none")
    /\ script = [dut |-> "hold", since |-> NoTime, rise |-> NoTime]

HoldFeed ==
    /\ script.dut = "hold"
    /\ \E dt \in DetSteps, e \in HoldSamples :
         /\ now + dt <= MaxHold
         /\ IsHigh(e) => (now + dt <= MaxFree \/ IsHigh(sample.eog_v))
         /\ (now > MaxFree /\ ~IsHigh(sample.eog_v)) =>
                now - script.since < PostHold
         /\ now' = now + dt
         /\ sample' = [sample EXCEPT !.eog_v = e]
         /\ pat' = PatNext(pat, blink.state, now, IsHigh(sample.eog_v), e, now + dt)
         /\ script' = [script EXCEPT
                          !.since = LevelSince(@, IsHigh(sample.eog_v), e, now + dt),
                          !.rise = IF IsHigh(e) /\ ~IsHigh(sample.eog_v)
                                   THEN now + dt ELSE @]
         /\ \E r \in {BlinkUpdate(blink, e, now + dt)} :
                /\ blink' = r.det
                /\ blink_event' = r.ev
                /\ before' = Shift(before, latest, "blink")
                /\ latest' = Stamp(latest, "blink", r.ev # "NONE", now + dt)
    /\ UNCHANGED <<frozen, gaze, gaze_event, hgaze, horiz_event, roll,
                   roll_event, nod, nod_event, ctlVars, held, twin, reader, kf, filt>>

NextHold == HoldFeed
SpecHold == InitHold /\ [][NextHold]_vars

(***************************************************************************)
(* A controller in its main loop: one update per packet, `now` read from    *)
(* the clock at each call.                                                  *)
(***************************************************************************)
Pkt(ev, eh, x, y, z) == [eog_v |-> ev, eog_h |-> eh, gx |-> x, gy |-> y, gz |-> z]

\* the packets fed to the controller; a run draws its packets from one
\* family (chosen at start), so that gestures of one kind are explored over
\* the whole horizon
Closed == Pkt(3500, EOG_BASELINE, 0, 0, 0)            \* eyes closed
UpHeadUp == Pkt(2900, EOG_BASELINE, -600, 0, 0)       \* look up, head up
DownHeadDown == Pkt(1000, EOG_BASELINE, 600, 0, 0)    \* look down, head down
LeftHeadLeft == Pkt(EOG_BASELINE, 1000, 0, -600, 0)   \* look left, head left
RightHeadRight == Pkt(EOG_BASELINE, 3000, 0, 600, 0)  \* look right, head right
LookLeft == Pkt(EOG_BASELINE, 1000, 0, 0, 0)          \* look left
LeftRoll == Pkt(EOG_BASELINE, 1000, 0, 0, 4000)       \* look left, head roll
LeftNod == Pkt(EOG_BASELINE, 1000, 4000, 0, 0)        \* look left, head nod
Turn == Pkt(EOG_BASELINE, EOG_BASELINE, 0, 600, 0)    \* head turn
TurnRoll == Pkt(EOG_BASELINE, EOG_BASELINE, 0, 600, 4000) \* head turn and roll

CtlPackets(family) ==
    CASE family = "blink" -> {IdleSample, Closed}
      [] family = "scroll" -> {IdleSample, UpHeadUp, DownHeadDown}
      [] family = "nav" -> {IdleSample, LeftHeadLeft, RightHeadRight}
      [] family = "roll" -> {IdleSample, LookLeft, LeftRoll}
      [] family = "nod" -> {IdleSample, LookLeft, LeftNod}
      [] family = "motion" -> {IdleSample, Turn, TurnRoll, LeftHeadLeft}
Families == {"blink", "scroll", "nav", "roll", "nod", "motion"}

\* increments of the clock between two ticks
CtlSteps == {50, 100}
\* the clock runs from StartTime to StartTime + Horizon(family)
LongHorizon == 1300
ShortHorizon == 600
Horizon(family) ==
    IF family \in {"blink", "scroll", "nav"} THEN LongHorizon ELSE ShortHorizon

InitCtl ==
    /\ now = StartTime
    /\ InitObjects
    /\ \E m \in {"threshold", "statespace"} : ctl = ControllerInit(m)
    /\ script \in {[dut |-> "controller", family |-> f] : f \in Families}

\* the history variables of a controller tick with result r at time t
TickHistory(r, p, t) ==
    LET fired(kinds) == \E i \in 1..Len(r.actions) : r.actions[i][1] \in kinds
        b0 == [before EXCEPT !.blink = latest.blink, !.hgaze = latest.hgaze,
                             !.scroll = latest.scroll, !.nav = latest.nav,
                             !.switch = latest.switch, !.nodact = latest.nodact]
    IN  /\ before' = b0
        /\ latest' = [latest EXCEPT
                        !.blink = IF r.blink.ev # "NONE" THEN t ELSE @,
                        !.hgaze = IF r.hgaze.ev # "NONE" THEN t ELSE @,
                        !.scroll = IF fired({"ScrollUp", "ScrollDown"}) THEN t ELSE @,
                        !.nav = IF fired({"NavBack", "NavForward"}) THEN t ELSE @,
                        !.switch = IF fired({"SwitchWindow"}) THEN t ELSE @,
                        !.nodact = IF fired({"CenterCursor", "DoubleClick"})
                                   THEN t ELSE @]
        /\ vel_before' = <<ctl.state[2], ctl.state[4]>>
        /\ spike_last' = [roll |-> IF Abs(p.gz) > HEAD_ROLL_THRESHOLD THEN t
                                   ELSE spike_last.roll,
                          nod |-> IF Abs(p.gx) > DOUBLE_NOD_THRESHOLD THEN t
                                  ELSE spike_last.nod]
        /\ \E rr \in {RollUpdate(roll_ref, p.gz, t, GazeHorizontal(p))} :
              roll_ref' = rr.det /\ roll_ref_event' = rr.ev
        /\ \E nr \in {NodUpdate(nod_ref, p.gx, t, GazeHorizontal(p))} :
              nod_ref' = nr.det /\ nod_ref_event' = nr.ev

\* one call of controller.update(p) at time t
Update(p, t) ==
    \E r \in {ControllerUpdate(ctl, blink, gaze, hgaze, roll, nod, p, t)} :
        /\ now' = t
        /\ sample' = p
        /\ frozen' = FALSE
        /\ ctl' = r.ctl
        /\ u' = r.u
        /\ actions' = r.actions
        /\ blink' = r.blink.det /\ blink_event' = r.blink.ev
        /\ gaze' = r.gaze.det /\ gaze_event' = r.gaze.ev
        /\ hgaze' = r.hgaze.det /\ horiz_event' = r.hgaze.ev
        /\ roll' = r.roll.det /\ roll_event' = r.roll.ev
        /\ nod' = r.nod.det /\ nod_event' = r.nod.ev
        /\ TickHistory(r, p, t)
        /\ UNCHANGED <<pat, held, reader, kf, filt>>

Tick ==
    /\ script.dut = "controller"
    /\ \E dt \in CtlSteps, p \in CtlPackets(script.family) :
         /\ now + dt <= StartTime + Horizon(script.family)
         /\ Update(p, now + dt)
    /\ UNCHANGED <<script, twin>>

NextCtl == Tick
SpecCtl == InitCtl /\ [][NextCtl]_vars

(***************************************************************************)
(* Replay: a controller runs on some packets, is reset, and is then fed a   *)
(* packet stream; `twin` is a freshly constructed controller of the same    *)
(* class that is fed the same stream with the same spacing, its clock       *)
(* starting at StartTime (the first pass over the stream).                  *)
(***************************************************************************)
\* the clock before the reset runs up to StartTime + WarmHorizon; the stream
\* lasts LongReplay (blink packets) or ShortReplay (scroll, motion packets)
WarmHorizon == 250
LongReplay == 850
ShortReplay == 350
ReplayFamilies == {"blink", "scroll", "motion"}
ReplayHorizon(family) == IF family = "blink" THEN LongReplay ELSE ShortReplay

TwinInit(mode) ==
    [on |-> TRUE, now |-> StartTime, ctl |-> ControllerInit(mode),
     blink |-> BlinkDetectorInit, gaze |-> GazeDetectorInit,
     hgaze |-> HorizontalGazeDetectorInit, roll |-> HeadRollDetectorInit,
     nod |-> DoubleNodDetectorInit, actions |-> <<>>]

InitReplay ==
    /\ now = StartTime
    /\ InitObjects
    /\ \E m \in {"threshold", "statespace"} : ctl = ControllerInit(m)
    /\ script \in {[dut |-> "warmup", family |-> f, gliding |-> FALSE,
                    from |-> "IDLE"] : f \in ReplayFamilies}

WarmTick ==
    /\ script.dut = "warmup"
    /\ \E dt \in CtlSteps, p \in CtlPackets(script.family) :
         /\ now + dt <= StartTime + WarmHorizon
         /\ Update(p, now + dt)
    /\ UNCHANGED <<script, twin>>

\* controller.reset(); script keeps what it found (the blink FSM state,
\* whether the cursor was gliding); the history variables start afresh
ResetController ==
    /\ script.dut = "warmup"
    /\ script' = [script EXCEPT !.dut = "replay",
                                !.gliding = ctl.state[2] # 0 \/ ctl.state[4] # 0,
                                !.from = blink.state]
    /\ ctl' = ControllerReset(ctl)
    /\ blink' = BlinkReset(blink) /\ blink_event' = "NONE"
    /\ gaze' = GazeReset(gaze) /\ gaze_event' = "NONE"
    /\ hgaze' = HGazeReset(hgaze) /\ horiz_event' = "NONE"
    /\ roll' = RollReset(roll) /\ roll_event' = "None"
    /\ nod' = NodReset(nod) /\ nod_event' = "None"
    /\ actions' = <<>>
    /\ u' = <<0, 0>>
    /\ vel_before' = <<0, 0>>
    /\ spike_last' = [roll |-> FAR_PAST, nod |-> FAR_PAST]
    /\ roll_ref' = HeadRollDetectorInit /\ roll_ref_event' = "None"
    /\ nod_ref' = DoubleNodDetectorInit /\ nod_ref_event' = "None"
    /\ before' = Never /\ latest' = Never
    /\ twin' = TwinInit(ctl.mode)
    /\ UNCHANGED <<now, sample, frozen, pat, held, reader, kf, filt>>

\* the next packet of the stream, to the reset controller and to the twin
ReplayTick ==
    /\ script.dut = "replay"
    /\ \E dt \in CtlSteps, p \in CtlPackets(script.family) :
         /\ twin.now + dt <= StartTime + ReplayHorizon(script.family)
         /\ Update(p, now + dt)
         /\ \E w \in {ControllerUpdate(twin.ctl, twin.blink, twin.gaze,
                                       twin.hgaze, twin.roll, twin.nod,
                                       p, twin.now + dt)} :
                twin' = [on |-> TRUE, now |-> twin.now + dt, ctl |-> w.ctl,
                         blink |-> w.blink.det, gaze |-> w.gaze.det,
                         hgaze |-> w.hgaze.det, roll |-> w.roll.det,
                         nod |-> w.nod.det, actions |-> w.actions]
    /\ UNCHANGED script

NextReplay == WarmTick \/ ResetController \/ ReplayTick
SpecReplay == InitReplay /\ [][NextReplay]_vars

(***************************************************************************)
(* The navigation scenario: idle packets, then WindowLen packets with       *)
(* eog_h = 1000 and gy = -600, then idle packets, one every SamplePeriod.   *)
(***************************************************************************)
\* config.SAMPLE_PERIOD, 5 ms
SamplePeriod == 5
\* packets of the gaze-and-turn window (2 s at 200 Hz)
WindowLen == 400
\* idle packets before the window (0..MaxPreIdle) and after it
MaxPreIdle == 2
PostIdle == 210

NavPacket(k, pre) ==
    IF k >= pre /\ k < pre + WindowLen THEN LeftHeadLeft ELSE IdleSample

InitNav ==
    /\ now = StartTime
    /\ InitObjects
    /\ \E m \in {"threshold", "statespace"} : ctl = ControllerInit(m)
    /\ \E n \in 0..MaxPreIdle :
         script = [dut |-> "navscript", pre |-> n, k |-> 0,
                   navback |-> 0, other |-> 0, moved |-> FALSE]

\* the k-th packet of the stream is handed to update; the counters sum up
\* what the tick emitted
NavTick ==
    /\ script.dut = "navscript"
    /\ script.k < script.pre + WindowLen + PostIdle
    /\ Update(NavPacket(script.k, script.pre), now + SamplePeriod)
    /\ UNCHANGED twin
    /\ LET n(kinds) == Cardinality({i \in 1..Len(actions') :
                                       actions'[i][1] \in kinds})
           inWindow == script.k >= script.pre /\ script.k < script.pre + WindowLen
       IN  script' = [script EXCEPT
                        !.k = @ + 1,
                        !.navback = @ + n({"NavBack"}),
                        !.other = @ + Len(actions') - n({"NavBack", "MoveCursor"}),
                        !.moved = @ \/ (inWindow /\ n({"MoveCursor"}) > 0)]

NextNav == NavTick
SpecNav == InitNav /\ [][NextNav]_vars

(***************************************************************************)
(* Properties                                                               *)
(***************************************************************************)
Emitted(kinds) == \E i \in 1..Len(actions) : actions[i][1] \in kinds
Count(kinds) == Cardinality({i \in 1..Len(actions) : actions[i][1] \in kinds})
InController == script.dut = "controller" /\ now > StartTime

\* C1: a detector returns an event only when more than the event's cooldown
\* has passed since the previous event the same detector returned
\* (DOUBLE_BLINK 0.8 s, TRIPLE_BLINK 1.0 s, LONG_BLINK 1.0 s after any blink
\* event; horizontal gaze, head roll and double nod 1.0 s each).
C1_DetectorCooldowns ==
    /\ blink_event = "DOUBLE_BLINK" => now - before.blink > DOUBLE_BLINK_COOLDOWN
    /\ blink_event = "TRIPLE_BLINK" => now - before.blink > TRIPLE_BLINK_COOLDOWN
    /\ blink_event = "LONG_BLINK" => now - before.blink > LONG_BLINK_COOLDOWN
    /\ horiz_event # "NONE" => now - before.hgaze > HORIZONTAL_GAZE_COOLDOWN
    /\ roll_event # "None" => now - before.roll > HEAD_ROLL_COOLDOWN
    /\ nod_event # "None" => now - before.nod > DOUBLE_NOD_COOLDOWN

\* a second blink event, returned after the cooldown of the first has passed
C1_Witness ==
    /\ script.dut = "blink"
    /\ blink_event = "DOUBLE_BLINK"
    /\ before.blink # FAR_PAST

\* C2: in both controllers two consecutive scroll actions are at least 80 ms
\* apart and two consecutive navigation actions at least 1.0 s apart, and
\* last_scroll_time / last_nav_time hold the time of the latest tick that
\* emitted an action of the class (0.0 before the first).
C2_FusionCooldowns ==
    /\ Emitted({"ScrollUp", "ScrollDown"}) =>
           now - before.scroll >= SCROLL_COOLDOWN
    /\ Emitted({"NavBack", "NavForward"}) =>
           now - before.nav >= HORIZONTAL_GAZE_COOLDOWN
    /\ ctl.last_scroll_time =
           (IF latest.scroll = FAR_PAST THEN 0 ELSE latest.scroll)
    /\ ctl.last_nav_time = (IF latest.nav = FAR_PAST THEN 0 ELSE latest.nav)

\* a scroll action that follows an earlier scroll action
C2_Witness ==
    /\ InController
    /\ Emitted({"ScrollUp", "ScrollDown"})
    /\ before.scroll # FAR_PAST

\* C3: a state-space tick whose eog_h is beyond a horizontal threshold emits
\* no cursor move and leaves both velocity components 0.
C3_FrozenStopsCursor ==
    (InController /\ ctl.mode = "statespace" /\ GazeHorizontal(sample)) =>
        /\ ~Emitted({"MoveCursor"})
        /\ ctl.state[2] = 0
        /\ ctl.state[4] = 0

\* the first sample of a horizontal gaze, with the head turning and the
\* cursor gliding from earlier motion
C3_Witness ==
    /\ InController /\ ctl.mode = "statespace"
    /\ GazeHorizontal(sample)
    /\ horiz_event = "NONE" /\ hgaze.gaze_start_time = now
    /\ Abs(sample.gy) > GYRO_DEADZONE
    /\ vel_before[1] > MoveMin

\* C4: a head-roll flick made while eog_h is beyond the horizontal threshold
\* (as a HeadRollDetector gated by that level recognises it, its own 1.0 s
\* cooldown elapsed) makes the controller emit exactly one SwitchWindow on
\* the sample that ends the pulse; with eog_h at baseline none is emitted.
C4_RollFlickSwitchesWindow ==
    InController =>
        /\ roll_ref_event = "switch_window" => Count({"SwitchWindow"}) = 1
        /\ ~GazeHorizontal(sample) => ~Emitted({"SwitchWindow"})

\* C5: a double nod made while the cursor is frozen (as the DoubleNodDetector
\* recognises it) makes the controller emit the mapped action on that tick.
C5_DoubleNodDispatched ==
    InController =>
        ((nod_event = "center_cursor" \/ nod_ref_event = "center_cursor") =>
            Count({"CenterCursor", "DoubleClick"}) = 1)

\* C6: a tick on which the blink detector returns TRIPLE_BLINK emits
\* DoubleClick.
C6_TripleBlinkDoubleClick ==
    InController => (blink_event = "TRIPLE_BLINK" => Emitted({"DoubleClick"}))

\* C7: a tick emits LeftClick iff the blink detector returned DOUBLE_BLINK
\* on it, and RightClick iff it returned LONG_BLINK.
C7_BlinkClicks ==
    InController =>
        /\ Emitted({"LeftClick"}) <=> blink_event = "DOUBLE_BLINK"
        /\ Emitted({"RightClick"}) <=> blink_event = "LONG_BLINK"

\* a tick that left-clicks
C7_Witness == InController /\ Emitted({"LeftClick"})

\* what a tick shows of the integrator: held still, or fed the gated gyro
IntegratorSuppressed ==
    /\ ~Emitted({"MoveCursor"})
    /\ ctl.mode = "statespace" =>
           u = <<0, 0>> /\ ctl.state[2] = 0 /\ ctl.state[4] = 0
IntegratorFed ==
    LET ux == Gated(sample.gy)
        uy == Gated(sample.gx)
    IN  IF ctl.mode = "threshold"
        THEN IF ux # 0 \/ uy # 0
             THEN Count({"MoveCursor"}) = 1 /\
                  \E i \in 1..Len(actions) : actions[i] = <<"MoveCursor", ux, uy>>
             ELSE ~Emitted({"MoveCursor"})
        ELSE /\ u = <<ux, uy>>
             /\ ctl.state[2] =
                    TruncDiv(VelRetainNum * vel_before[1], VelRetainDen) + ux
             /\ ctl.state[4] =
                    TruncDiv(VelRetainNum * vel_before[2], VelRetainDen) + uy

\* C9 as stated: the integrator is suppressed exactly when the vertical or
\* the horizontal gaze level is beyond threshold or a head-roll / nod ACTION
\* was dispatched less than 0.3 s ago.
C9_SuppressionAsStated ==
    LET any_action ==
            \/ GazeVertical(sample) \/ GazeHorizontal(sample)
            \/ now - latest.switch < HEAD_ROLL_SUPPRESS_DURATION
            \/ now - latest.nodact < HEAD_ROLL_SUPPRESS_DURATION
    IN  InController =>
            IF any_action THEN IntegratorSuppressed ELSE IntegratorFed

\* C9 amended: the integrator is suppressed exactly when the vertical or the
\* horizontal gaze level is beyond threshold or less than 0.3 s has passed
\* since the latest sample (this one included) with |gz| above
\* HEAD_ROLL_THRESHOLD or with |gx| above DOUBLE_NOD_THRESHOLD.
C9_SuppressionAmended ==
    LET any_action ==
            \/ GazeVertical(sample) \/ GazeHorizontal(sample)
            \/ now - spike_last.roll < HEAD_ROLL_SUPPRESS_DURATION
            \/ now - spike_last.nod < HEAD_ROLL_SUPPRESS_DURATION
    IN  InController =>
            IF any_action THEN IntegratorSuppressed ELSE IntegratorFed

\* a head turn beyond the deadzone, gaze at baseline, no spike on this
\* sample, suppressed by the grace window of an earlier roll spike
C9_Witness ==
    /\ InController
    /\ ~GazeVertical(sample) /\ ~GazeHorizontal(sample)
    /\ ~HeadRolling(sample) /\ ~HeadNodding(sample)
    /\ Abs(sample.gy) > GYRO_DEADZONE
    /\ now - spike_last.roll < HEAD_ROLL_SUPPRESS_DURATION
    /\ IntegratorSuppressed

NavDone == script.dut = "navscript" /\ script.k = script.pre + WindowLen + PostIdle

\* C8 as stated: the stream yields exactly one NavBack in total and no cursor
\* motion on any sample of the window.
C8_ExactlyOneNavBack ==
    /\ ~script.moved
    /\ NavDone => script.navback = 1

\* C8 amended: the stream yields exactly two NavBack in total (the held gaze
\* re-triggers once its 1.0 s cooldown has passed), nothing else but NavBack,
\* and no cursor motion on any sample of the window.
C8_ExactlyTwoNavBack ==
    /\ ~script.moved
    /\ script.other = 0
    /\ script.navback <= 2
    /\ NavDone => script.navback = 2

\* the end of the stream, reached with the head turn held through the window
C8_Witness == NavDone /\ script.navback = 2 /\ script.pre > 0

\* C10: in WAIT_THIRD (two blinks of valid duration were seen, the second
\* begun within DOUBLE_BLINK_WINDOW of the first's release) a low sample
\* returns NONE while less than TRIPLE_BLINK_WINDOW has passed since the
\* second release; the first low sample at or past the window returns
\* DOUBLE_BLINK if more than DOUBLE_BLINK_COOLDOWN has passed since the
\* previous blink event (NONE otherwise) and ends the pattern in IDLE, and
\* further low samples in IDLE return NONE: DOUBLE_BLINK is returned once,
\* and never before the window has passed.
C10_DoubleBlinkStep ==
    LET low == sample'.eog_v <= BLINK_THRESHOLD
        elapsed == now' - blink.blink_end_time
    IN  /\ (blink.state = "WAIT_THIRD" /\ low /\ elapsed < TRIPLE_BLINK_WINDOW) =>
               (blink_event' = "NONE" /\ blink'.state = "WAIT_THIRD")
        /\ (blink.state = "WAIT_THIRD" /\ low /\ elapsed >= TRIPLE_BLINK_WINDOW) =>
               /\ blink'.state = "IDLE"
               /\ blink_event' =
                      IF now' - latest.blink > DOUBLE_BLINK_COOLDOWN
                      THEN "DOUBLE_BLINK" ELSE "NONE"
        /\ (blink.state = "IDLE" /\ low) =>
               (blink_event' = "NONE" /\ blink'.state = "IDLE")
        /\ blink_event' = "DOUBLE_BLINK" =>
               (blink.state = "WAIT_THIRD" /\ elapsed >= TRIPLE_BLINK_WINDOW)
C10_DoubleBlink == [][C10_DoubleBlinkStep]_vars

\* DOUBLE_BLINK returned on a low sample, TRIPLE_BLINK_WINDOW or more after
\* the release of the second blink
C10_Witness ==
    /\ script.dut = "blink"
    /\ blink_event = "DOUBLE_BLINK"
    /\ blink.blink_count = 2
    /\ sample.eog_v <= BLINK_THRESHOLD
    /\ now - blink.blink_end_time >= TRIPLE_BLINK_WINDOW

InBlinkFeed == script.dut = "blinkfeed"

\* C11: three blinks, the first begun with the FSM in IDLE, each high for
\* BLINK_MIN_DURATION..BLINK_MAX_DURATION (first high to first low sample),
\* the second begun less than DOUBLE_BLINK_WINDOW after the first's release
\* and the third less than TRIPLE_BLINK_WINDOW after the second's: the first
\* low sample after the third returns TRIPLE_BLINK (if more than
\* TRIPLE_BLINK_COOLDOWN has passed since the previous blink event) and
\* leaves IDLE, no sample of the pattern returns DOUBLE_BLINK, and
\* TRIPLE_BLINK is returned on no other sample of a pattern.  If instead the
\* third blink begins at or past the window, the first sample at or past the
\* window returns DOUBLE_BLINK (if more than DOUBLE_BLINK_COOLDOWN has
\* passed) and the release of the third blink does not return TRIPLE_BLINK.
C11_TripleBlinkStep ==
    LET third == pat'.n = 3 /\ ~pat'.late /\ pat'.r = now' /\ ValidRun(pat')
        waiting == pat'.n = 2 /\ pat'.r # NoTime /\
                   now' - pat'.r >= TRIPLE_BLINK_WINDOW
        expiry == /\ pat.n = 2 /\ ValidRun(pat)
                  /\ now - pat.r < TRIPLE_BLINK_WINDOW
                  /\ now' - pat.r >= TRIPLE_BLINK_WINDOW
    IN  /\ third =>
              /\ blink'.state = "IDLE"
              /\ blink_event' =
                     IF now' - latest.blink > TRIPLE_BLINK_COOLDOWN
                     THEN "TRIPLE_BLINK" ELSE "NONE"
        /\ (pat'.n >= 1 /\ ~pat'.late /\ ~waiting) =>
               blink_event' # "DOUBLE_BLINK"
        /\ (pat'.n >= 1 /\ blink_event' = "TRIPLE_BLINK") => third
        /\ expiry =>
              blink_event' =
                  IF now' - latest.blink > DOUBLE_BLINK_COOLDOWN
                  THEN "DOUBLE_BLINK" ELSE "NONE"
        /\ (pat'.late /\ pat'.r = now') => blink_event' # "TRIPLE_BLINK"
C11_TripleBlink == [][C11_TripleBlinkStep]_vars

\* TRIPLE_BLINK returned on the release of the third blink of a pattern
C11_Witness ==
    /\ InBlinkFeed
    /\ blink_event = "TRIPLE_BLINK"
    /\ pat.n = 3 /\ ~pat.late /\ pat.r = now

\* the release of a third blink that began past TRIPLE_BLINK_WINDOW, after
\* the expiry of the window returned DOUBLE_BLINK
C11_LateThird ==
    /\ InBlinkFeed
    /\ pat.n = 3 /\ pat.late /\ pat.r = now
    /\ latest.blink = pat.s

\* the release of the third blink of a pattern, within TRIPLE_BLINK_COOLDOWN
\* of an earlier event: nothing is returned
C11_CooldownBlocks ==
    /\ InBlinkFeed
    /\ pat.n = 3 /\ ~pat.late /\ pat.r = now /\ ValidRun(pat)
    /\ blink_event = "NONE"

InHold == script.dut = "hold"

\* C12: LONG_BLINK is returned only on a sample at or below the blink
\* threshold; a high sample that finds the FSM in IN_BLINK returns NONE and
\* leaves it in IN_BLINK, however long the run; the release of a first blink
\* held LONG_BLINK_MIN_DURATION..LONG_BLINK_MAX_DURATION returns LONG_BLINK
\* (if more than LONG_BLINK_COOLDOWN has passed since the previous blink
\* event) and ends in IDLE, where further low samples return NONE.
C12_LongBlinkStep ==
    LET high == IsHigh(sample'.eog_v)
        d == pat'.r - pat'.s
    IN  /\ blink_event' = "LONG_BLINK" => ~high
        /\ (blink.state = "IN_BLINK" /\ high) =>
               (blink_event' = "NONE" /\ blink'.state = "IN_BLINK")
        /\ (/\ pat'.n = 1 /\ pat'.r = now'
            /\ d >= LONG_BLINK_MIN_DURATION /\ d <= LONG_BLINK_MAX_DURATION) =>
               /\ blink'.state = "IDLE"
               /\ blink_event' =
                      IF now' - latest.blink > LONG_BLINK_COOLDOWN
                      THEN "LONG_BLINK" ELSE "NONE"
        /\ (blink.state = "IDLE" /\ ~high) =>
               (blink_event' = "NONE" /\ blink'.state = "IDLE")
C12_LongBlinkOnRelease == [][C12_LongBlinkStep]_vars

\* LONG_BLINK returned on a sample exactly at the threshold, the release of
\* a run held for 2 s
C12_Witness ==
    /\ InHold
    /\ blink_event = "LONG_BLINK"
    /\ sample.eog_v = BLINK_THRESHOLD
    /\ pat.n = 1 /\ pat.r = now /\ pat.r - pat.s = 2000

\* a high sample more than LONG_BLINK_MAX_DURATION into the run: still
\* IN_BLINK, nothing returned
C12_StillHeld ==
    /\ InHold
    /\ IsHigh(sample.eog_v) /\ blink.state = "IN_BLINK"
    /\ now - blink.blink_start_time > LONG_BLINK_MAX_DURATION
    /\ blink_event = "NONE"

\* C13: the release of a first blink, d after its first high sample, more
\* than LONG_BLINK_COOLDOWN after the previous blink event: d exactly
\* LONG_BLINK_MIN_DURATION returns LONG_BLINK, d exactly
\* LONG_BLINK_MAX_DURATION returns LONG_BLINK, and any d above
\* LONG_BLINK_MAX_DURATION returns NONE and leaves the FSM in IDLE.
C13_LongBlinkBoundsStep ==
    LET d == pat'.r - pat'.s
        released == pat'.n = 1 /\ pat'.r = now'
        cooled == now' - latest.blink > LONG_BLINK_COOLDOWN
    IN  /\ (released /\ cooled /\ d = LONG_BLINK_MIN_DURATION) =>
               blink_event' = "LONG_BLINK"
        /\ (released /\ cooled /\ d = LONG_BLINK_MAX_DURATION) =>
               blink_event' = "LONG_BLINK"
        /\ (released /\ d > LONG_BLINK_MAX_DURATION) =>
               (blink_event' = "NONE" /\ blink'.state = "IDLE")
C13_LongBlinkBounds == [][C13_LongBlinkBoundsStep]_vars

\* LONG_BLINK returned for a blink of exactly LONG_BLINK_MAX_DURATION
C13_Witness ==
    /\ InHold
    /\ pat.n = 1 /\ pat.r = now
    /\ pat.r - pat.s = LONG_BLINK_MAX_DURATION
    /\ blink_event = "LONG_BLINK"

\* the release of a blink one sample longer than LONG_BLINK_MAX_DURATION
C13_TooLong ==
    /\ InHold
    /\ pat.n = 1 /\ pat.r = now
    /\ pat.r - pat.s = LONG_BLINK_MAX_DURATION + 50
    /\ blink_event = "NONE" /\ blink.state = "IDLE"

\* LONG_BLINK returned for a blink of exactly LONG_BLINK_MIN_DURATION
C13_AtMin ==
    /\ InHold
    /\ pat.n = 1 /\ pat.r = now
    /\ pat.r - pat.s = LONG_BLINK_MIN_DURATION
    /\ blink_event = "LONG_BLINK"

\* C14 as stated: the release of a blink that lasted exactly
\* BLINK_MIN_DURATION takes the FSM to IDLE (the blink is discarded).
C14_MinDurationStep ==
    (pat'.n >= 1 /\ pat'.r = now' /\ pat'.r - pat'.s = BLINK_MIN_DURATION) =>
        blink'.state = "IDLE"
C14_MinDurationDiscarded == [][C14_MinDurationStep]_vars

\* C14 amended: a blink that lasted exactly BLINK_MIN_DURATION is accepted
\* and counts: the release of the first takes the FSM to WAIT_SECOND, of the
\* second (begun within DOUBLE_BLINK_WINDOW) to WAIT_THIRD, both returning
\* NONE, and of the third (begun within TRIPLE_BLINK_WINDOW) returns
\* TRIPLE_BLINK, cooldown permitting, and goes to IDLE.
C14_MinDurationCountsStep ==
    (/\ pat'.n >= 1 /\ ~pat'.late /\ pat'.r = now'
     /\ pat'.r - pat'.s = BLINK_MIN_DURATION) =>
        /\ pat'.n = 1 => (blink'.state = "WAIT_SECOND" /\ blink_event' = "NONE")
        /\ pat'.n = 2 => (blink'.state = "WAIT_THIRD" /\ blink_event' = "NONE")
        /\ pat'.n = 3 =>
              /\ blink'.state = "IDLE"
              /\ blink_event' =
                     IF now' - latest.blink > TRIPLE_BLINK_COOLDOWN
                     THEN "TRIPLE_BLINK" ELSE "NONE"
        /\ blink'.blink_count = pat'.n
        /\ blink'.state # "IDLE" => blink'.blink_end_time = now'
C14_MinDurationCounts == [][C14_MinDurationCountsStep]_vars

\* DOUBLE_BLINK returned for two blinks of exactly BLINK_MIN_DURATION each
C14_Witness ==
    /\ InBlinkFeed
    /\ blink_event = "DOUBLE_BLINK"
    /\ pat.n = 2 /\ pat.r - pat.s = BLINK_MIN_DURATION
    /\ blink.blink_end_time = pat.r
    /\ now - pat.r >= TRIPLE_BLINK_WINDOW

\* C15: a first blink that lasted BLINK_MIN_DURATION..BLINK_MAX_DURATION and
\* is not followed by a high sample within DOUBLE_BLINK_WINDOW of its release
\* returns no event: every sample of the blink and of the wait returns NONE,
\* the FSM waits in WAIT_SECOND while less than the window has passed and is
\* in IDLE after the first sample at or past the window (whatever its level).
C15_SingleBlinkStep ==
    LET waited == pat.n = 1 /\ ValidRun(pat) /\ now - pat.r < DOUBLE_BLINK_WINDOW
        elapsed == now' - pat.r
    IN  /\ (pat'.n = 1 /\ (pat'.r = NoTime \/ ValidRun(pat'))) =>
               blink_event' = "NONE"
        /\ (pat'.n = 1 /\ pat'.r = now' /\ ValidRun(pat')) =>
               blink'.state = "WAIT_SECOND"
        /\ (waited /\ ~IsHigh(sample'.eog_v) /\ elapsed < DOUBLE_BLINK_WINDOW) =>
               blink'.state = "WAIT_SECOND"
        /\ (waited /\ elapsed >= DOUBLE_BLINK_WINDOW) =>
               (blink'.state = "IDLE" /\ blink_event' = "NONE")
        /\ blink.state = "WAIT_SECOND" => blink_event' = "NONE"
C15_SingleBlinkIgnored == [][C15_SingleBlinkStep]_vars

\* the low sample that times a single blink out, back in IDLE
C15_Witness ==
    /\ InBlinkFeed
    /\ pat.n = 1 /\ ValidRun(pat)
    /\ ~IsHigh(sample.eog_v)
    /\ now - pat.r >= DOUBLE_BLINK_WINDOW
    /\ blink.state = "IDLE" /\ blink.blink_count = 1
    /\ blink_event = "NONE" /\ latest.blink = FAR_PAST

\* C18 as stated: once LONG_BLINK_MAX_DURATION + BLINK_MAX_DURATION (2.75 s)
\* has passed since the first high sample of a run, the FSM is in IDLE.
C18_IdleWithinBound ==
    (InHold /\ script.rise # NoTime /\
     now - script.rise >= LONG_BLINK_MAX_DURATION + BLINK_MAX_DURATION) =>
        blink.state = "IDLE"

\* C18 amended: from its second high sample to its last the run keeps the
\* FSM in IN_BLINK, however long it lasts; after the run the FSM is in IDLE
\* from the first sample taken 0.6 s (the longer of DOUBLE_BLINK_WINDOW and
\* TRIPLE_BLINK_WINDOW) or more after the run's first low sample.
C18_IdleAfterRelease ==
    InHold =>
        /\ (IsHigh(sample.eog_v) /\ now > script.since) =>
               blink.state = "IN_BLINK"
        /\ (/\ ~IsHigh(sample.eog_v) /\ script.since # NoTime
            /\ now - script.since >= DOUBLE_BLINK_WINDOW
            /\ now - script.since >= TRIPLE_BLINK_WINDOW) =>
               blink.state = "IDLE"

\* back in IDLE by the expiry of WAIT_THIRD, 0.6 s after the release of a
\* second blink
C18_Witness ==
    /\ InHold
    /\ script.rise # NoTime /\ ~IsHigh(sample.eog_v)
    /\ now - script.since >= TRIPLE_BLINK_WINDOW
    /\ blink.state = "IDLE" /\ blink.blink_count = 2
    /\ blink.blink_end_time = script.since

\* C19: the vertical gaze detector returns a direction on a sample exactly
\* when the sample classifies to it (LOOK_UP for 2800 < eog_v <= 3000,
\* LOOK_DOWN for eog_v < 1200), every sample since the direction was first
\* seen classified to it, and at least 100 ms have passed since that first
\* sample; so it is returned on every further sample while the level is
\* held, and a neutral sample, a sample above the blink threshold or a
\* change of direction restarts the hold.
C19_VerticalGazeHold ==
    script.dut = "gaze" =>
        gaze_event =
            IF held.v.class # "NONE" /\ now - held.v.since >= GAZE_MIN_DURATION
            THEN held.v.class ELSE "NONE"

\* LOOK_UP returned at eog_v = 3000 for a hold of exactly 100 ms that began
\* right after a sample above the blink threshold
C19_Witness ==
    /\ script.dut = "gaze"
    /\ gaze_event = "LOOK_UP" /\ sample.eog_v = BLINK_THRESHOLD
    /\ now - held.v.since = GAZE_MIN_DURATION
    /\ held.v.since > 0

\* C20: the horizontal gaze detector returns a direction only on a sample
\* on that side, the level having stayed on that side for at least 150 ms,
\* and more than 1.0 s after the event it returned before: for 1.0 s after
\* an event nothing is returned, a gaze re-established and held 150 ms
\* within that second included; outside the cooldown a gaze held 150 ms is
\* returned.
C20_HorizontalGazeHold ==
    script.dut = "hgaze" =>
        horiz_event =
            IF /\ held.h.class # "NONE"
               /\ now - held.h.since >= HGAZE_MIN_DURATION
               /\ now - before.hgaze > HORIZONTAL_GAZE_COOLDOWN
            THEN held.h.class ELSE "NONE"

\* a gaze re-established after an event and held 150 ms or more within the
\* cooldown: nothing is returned
C20_Witness ==
    /\ script.dut = "hgaze"
    /\ latest.hgaze # FAR_PAST
    /\ held.h.class # "NONE" /\ held.h.since > latest.hgaze
    /\ now - held.h.since >= HGAZE_MIN_DURATION
    /\ now - latest.hgaze <= HORIZONTAL_GAZE_COOLDOWN
    /\ horiz_event = "NONE"

\* a second event, more than 1.0 s after the first
C20_SecondEvent ==
    /\ script.dut = "hgaze"
    /\ horiz_event # "NONE" /\ before.hgaze # FAR_PAST

\* C16: after reset(), every baseline sample (eog 2048, gyro 0; cursor_frozen
\* either way for the roll and nod detectors) fed to the detector returns no
\* event, whatever state the detector was reset in and however many samples
\* follow.
C16_IdleAfterResetStep ==
    script.dut = "reset" =>
        /\ blink_event' = "NONE" /\ gaze_event' = "NONE" /\ horiz_event' = "NONE"
        /\ roll_event' = "None" /\ nod_event' = "None"
        /\ blink'.state = "IDLE"
C16_IdleAfterReset == [][C16_IdleAfterResetStep]_vars

\* a blink detector reset while waiting for a third blink, 0.6 s of baseline
\* later
C16_Witness ==
    /\ script.dut = "reset" /\ script.was = "blink"
    /\ script.from = "WAIT_THIRD"
    /\ now - blink.blink_end_time >= TRIPLE_BLINK_WINDOW
    /\ sample = IdleSample /\ blink_event = "NONE"


\* C17: after reset(), a controller fed a packet stream emits on every
\* packet the actions that a freshly constructed controller emits on the
\* same packet of the same stream (the first pass), whatever it was fed
\* before the reset.
C17_ReplayAfterReset ==
    script.dut = "replay" => actions = twin.actions

\* a left click on the second pass, by a controller that was reset while a
\* blink pattern was in progress
C17_Witness ==
    /\ script.dut = "replay"
    /\ script.from # "IDLE"
    /\ Emitted({"LeftClick"})
    /\ actions = twin.actions

\* a cursor move on the second pass, by a state-space controller that was
\* reset while the cursor was gliding
C17_Gliding ==
    /\ script.dut = "replay" /\ ctl.mode = "statespace"
    /\ script.gliding
    /\ Emitted({"MoveCursor"})
    /\ actions = twin.actions

(***************************************************************************)
(* The head-roll and the double-nod detector alone, fed a gyro sample and   *)
(* cursor_frozen per call.  `script` follows the input: a pulse is an       *)
(* unbroken run of samples with cursor_frozen true and the gyro magnitude   *)
(* above threshold; it is released by the first sample with cursor_frozen   *)
(* true and the magnitude at or below threshold.  Pulses are numbered from  *)
(* the latest sample with cursor_frozen false (from the start of the run).  *)
(***************************************************************************)
\* last timestamp fed in this setting
MaxGyro == 1050
\* gyro values fed: rest, a spike
PulseSamples == {0, 4000}

\* script.n: pulses begun (3: three or more); s, r: first sample and release
\* of the latest pulse; v: every pulse released so far was released within
\* the maximum duration; r1: release of pulse 1; evs: events returned
\* (2: two or more); d: release of a quick first pulse that a later sample
\* with cursor_frozen false found pending
NoPulse == [n |-> 0, s |-> NoTime, r |-> NoTime, v |-> TRUE, r1 |-> NoTime,
            evs |-> 0, d |-> NoTime]

Above(g) == Abs(g) > DOUBLE_NOD_THRESHOLD

PulseNext(q, was_active, g, f, t, fired) ==
    LET c == IF fired /\ q.evs < 2 THEN q.evs + 1 ELSE q.evs
    IN  IF ~f
        THEN [NoPulse EXCEPT !.d = IF q.n = 1 /\ q.v /\ q.r # NoTime
                                   THEN q.r ELSE q.d]
        ELSE IF Above(g)
        THEN IF was_active THEN [q EXCEPT !.evs = c]
             ELSE [q EXCEPT !.n = IF @ < 3 THEN @ + 1 ELSE @,
                            !.s = t, !.r = NoTime, !.evs = c]
        ELSE IF was_active
             THEN [q EXCEPT !.r = t,
                            !.v = @ /\ t - q.s <= DOUBLE_NOD_MAX_DURATION,
                            !.r1 = IF q.n = 1 THEN t ELSE @,
                            !.evs = c]
             ELSE [q EXCEPT !.evs = c]

InitGyro ==
    /\ now = 0
    /\ InitObjects
    /\ ctl = ControllerInit("none")
    /\ script \in {[dut |-> k, q |-> NoPulse] : k \in {"rollfeed", "nodfeed"}}

RollFeed ==
    /\ script.dut = "rollfeed"
    /\ \E dt \in DetSteps, g \in PulseSamples, f \in BOOLEAN :
         /\ now + dt <= MaxGyro
         /\ now' = now + dt
         /\ sample' = [sample EXCEPT !.gz = g]
         /\ frozen' = f
         /\ \E r \in {RollUpdate(roll, g, now + dt, f)} :
                /\ roll' = r.det
                /\ roll_event' = r.ev
                /\ before' = Shift(before, latest, "roll")
                /\ latest' = Stamp(latest, "roll", r.ev # "None", now + dt)
                /\ script' = [script EXCEPT !.q =
                                 PulseNext(@, frozen /\ Above(sample.gz), g, f,
                                           now + dt, r.ev # "None")]
    /\ UNCHANGED <<blink, blink_event, gaze, gaze_event, hgaze, horiz_event,
                   nod, nod_event, ctlVars, ghostVars, reader, kf, filt>>

NodFeed ==
    /\ script.dut = "nodfeed"
    /\ \E dt \in DetSteps, g \in PulseSamples, f \in BOOLEAN :
         /\ now + dt <= MaxGyro
         /\ now' = now + dt
         /\ sample' = [sample EXCEPT !.gx = g]
         /\ frozen' = f
         /\ \E r \in {NodUpdate(nod, g, now + dt, f)} :
                /\ nod' = r.det
                /\ nod_event' = r.ev
                /\ before' = Shift(before, latest, "nod")
                /\ latest' = Stamp(latest, "nod", r.ev # "None", now + dt)
                /\ script' = [script EXCEPT !.q =
                                 PulseNext(@, frozen /\ Above(sample.gx), g, f,
                                           now + dt, r.ev # "None")]
    /\ UNCHANGED <<blink, blink_event, gaze, gaze_event, hgaze, horiz_event,
                   roll, roll_event, ctlVars, ghostVars, reader, kf, filt>>

NextGyro == RollFeed \/ NodFeed
SpecGyro == InitGyro /\ [][NextGyro]_vars

InRollFeed == script.dut = "rollfeed"
InNodFeed == script.dut = "nodfeed"

\* C21: a sample with cursor_frozen false never makes HeadRollDetector or
\* DoubleNodDetector return an event, whatever the gyro value and whatever
\* the detector held, and it leaves spike_start, the direction, the
\* suppressed latch and first_nod_time cleared.
C21_UnfrozenClears ==
    /\ (InRollFeed /\ now > 0 /\ ~frozen) =>
           /\ roll_event = "None"
           /\ roll.spike_start = NoTime /\ roll.spike_direction = "None"
           /\ ~roll.suppressed
    /\ (InNodFeed /\ now > 0 /\ ~frozen) =>
           /\ nod_event = "None"
           /\ nod.spike_start = NoTime /\ ~nod.suppressed
           /\ nod.first_nod_time = NoTime

\* a sample with cursor_frozen false and the gyro above threshold, taken 50 ms
\* after the release of a quick first nod
C21_Witness ==
    /\ InNodFeed /\ ~frozen /\ Above(sample.gx)
    /\ script.q.d # NoTime /\ script.q.d = now - 50

\* the same for the roll detector, 50 ms after a flick was returned
C21_AfterFlick ==
    /\ InRollFeed /\ ~frozen /\ Above(sample.gz)
    /\ latest.roll = now - 50

\* the sample of the step is the release of a pulse (of the gyro channel g)
Release(g0, g1) == frozen /\ Above(g0) /\ frozen' /\ ~Above(g1)

\* C22: with cursor_frozen true throughout a pulse, HeadRollDetector returns
\* the flick exactly on the release sample of a pulse released within
\* HEAD_ROLL_MAX_DURATION (0.3 s) of its first sample, the cooldown having
\* elapsed; a pulse held longer yields nothing while it is held and nothing on
\* its release, and DoubleNodDetector does not count it as a nod: no event,
\* and first_nod_time is not set by it.
C22_PulseStep ==
    /\ InRollFeed =>
           (roll_event' = "switch_window" <=>
               /\ Release(sample.gz, sample'.gz)
               /\ now' - script.q.s <= HEAD_ROLL_MAX_DURATION
               /\ now' - latest.roll > HEAD_ROLL_COOLDOWN)
    /\ (InNodFeed /\ frozen' /\ Above(sample'.gx)) =>
           nod_event' = "None" /\ nod'.first_nod_time = nod.first_nod_time
    /\ (/\ InNodFeed /\ Release(sample.gx, sample'.gx)
        /\ now' - script.q.s > DOUBLE_NOD_MAX_DURATION) =>
           nod_event' = "None" /\ nod'.first_nod_time # now'
C22_LongPulseIgnored == [][C22_PulseStep]_vars

\* the release of a roll pulse held 350 ms, sampled so that the detector
\* never latched `suppressed` (no sample between 300 ms and the release)
C22_Witness ==
    /\ InRollFeed /\ frozen /\ ~Above(sample.gz)
    /\ script.q.r = now /\ now - script.q.s = 350
    /\ roll_event = "None"
    /\ latest.roll = FAR_PAST

\* a flick returned for a pulse released exactly 0.3 s after its first sample
C22_AtMax ==
    /\ InRollFeed /\ roll_event = "switch_window"
    /\ script.q.r = now /\ now - script.q.s = HEAD_ROLL_MAX_DURATION

\* a quick pulse released within the cooldown of the previous flick
C22_CooldownBlocks ==
    /\ InRollFeed /\ roll_event = "None" /\ frozen
    /\ script.q.r = now /\ now - script.q.s <= HEAD_ROLL_MAX_DURATION
    /\ latest.roll # FAR_PAST

\* a nod pulse held past 0.3 s while a first nod is pending
C22_LongNod ==
    /\ InNodFeed /\ frozen /\ script.q.n = 2 /\ script.q.r = now
    /\ now - script.q.s > DOUBLE_NOD_MAX_DURATION
    /\ nod.first_nod_time = script.q.r1

\* the step releases a nod pulse that lasted at most DOUBLE_NOD_MAX_DURATION
QuickNodRelease ==
    /\ Release(sample.gx, sample'.gx)
    /\ now' - script.q.s <= DOUBLE_NOD_MAX_DURATION

\* C23: DoubleNodDetector with cursor_frozen true throughout: up to the
\* second pulse it returns DoubleNod only on the release sample of the second
\* pulse, and there exactly when both pulses were released within 0.3 s, the
\* two releases are at most DOUBLE_NOD_WINDOW (0.8 s) apart and the cooldown
\* has elapsed; a single pulse yields nothing, two pulses whose releases are
\* further apart yield nothing, and no second event follows the first before
\* a third pulse.
C23_DoubleNodStep ==
    (InNodFeed /\ script'.q.n <= 2) =>
        (nod_event' = "center_cursor" <=>
            /\ script.q.n = 2 /\ script.q.v /\ QuickNodRelease
            /\ now' - script.q.r1 <= DOUBLE_NOD_WINDOW
            /\ now' - latest.nod > DOUBLE_NOD_COOLDOWN)
C23_DoubleNod == [][C23_DoubleNodStep]_vars

\* DoubleNod returned for two quick pulses released exactly 0.8 s apart
C23_Witness ==
    /\ InNodFeed /\ nod_event = "center_cursor"
    /\ script.q.n = 2 /\ script.q.r = now /\ script.q.evs = 1
    /\ now - script.q.r1 = DOUBLE_NOD_WINDOW

\* a single quick pulse, more than 0.8 s after its release: nothing returned
C23_SinglePulse ==
    /\ InNodFeed /\ frozen /\ script.q.n = 1 /\ script.q.v
    /\ script.q.r # NoTime /\ now - script.q.r > DOUBLE_NOD_WINDOW
    /\ script.q.evs = 0 /\ latest.nod = FAR_PAST

\* two quick pulses released 0.85 s apart: nothing returned
C23_WindowExpired ==
    /\ InNodFeed /\ frozen /\ script.q.n = 2 /\ script.q.v
    /\ script.q.r = now /\ now - script.q.r1 = DOUBLE_NOD_WINDOW + 50
    /\ script.q.evs = 0 /\ nod_event = "None"

\* 0.4 s after a DoubleNod, no third pulse yet: one event in all
C23_OnceOnly ==
    /\ InNodFeed /\ frozen /\ script.q.n = 2 /\ script.q.evs = 1
    /\ now - latest.nod = 400

\* two quick pulses within the window, inside the cooldown of an earlier
\* DoubleNod: nothing returned
C23_CooldownBlocks ==
    /\ InNodFeed /\ frozen /\ script.q.n = 2 /\ script.q.v
    /\ script.q.r = now /\ now - script.q.r1 <= DOUBLE_NOD_WINDOW
    /\ nod_event = "None" /\ latest.nod # FAR_PAST

\* C24: DoubleNodDetector returns DoubleNod only on the release of a pulse
\* that is at least the second pulse since the latest sample with
\* cursor_frozen false: a sample with cursor_frozen false between two nods
\* discards the first, and the nod that follows it emits nothing and is
\* itself recorded as a first nod.
C24_UnfreezeStep ==
    InNodFeed =>
        /\ nod_event' = "center_cursor" =>
               script'.q.n >= 2 /\ Release(sample.gx, sample'.gx)
        /\ (script.q.n = 1 /\ QuickNodRelease) =>
               nod_event' = "None" /\ nod'.first_nod_time = now'
C24_UnfreezeDiscardsNod == [][C24_UnfreezeStep]_vars

\* a quick nod released at 100 ms, one sample with cursor_frozen false at
\* 150 ms, a second quick nod from 200 ms released at 250 ms: no event, and
\* the second nod is the pending first nod
C24_Witness ==
    /\ InNodFeed /\ frozen /\ now = 250
    /\ script.q.d = 100 /\ script.q.n = 1 /\ script.q.s = 200 /\ script.q.r = 250
    /\ nod_event = "None" /\ nod.first_nod_time = 250
    /\ latest.nod = FAR_PAST

(***************************************************************************)
(* Scrolling: a controller fed vertical gaze, head tilt, both or neither,   *)
(* with tilts whose scaled magnitude |gx| / 300 * 30 is not an integer.     *)
(***************************************************************************)
\* the clock runs from StartTime to StartTime + ScrollHorizon
ScrollHorizon == 300
\* vertical gaze levels and head tilts (gx) of the packets
ScrollGazes == {EOG_BASELINE, 2900, 1000}
ScrollTilts == {0, -300, -306, 1230}

InitScroll ==
    /\ now = StartTime
    /\ InitObjects
    /\ \E m \in {"threshold", "statespace"} : ctl = ControllerInit(m)
    /\ script = [dut |-> "scrolling"]

ScrollTick ==
    /\ script.dut = "scrolling"
    /\ \E dt \in CtlSteps, ev \in ScrollGazes, x \in ScrollTilts :
         /\ now + dt <= StartTime + ScrollHorizon
         /\ Update(Pkt(ev, EOG_BASELINE, x, 0, 0), now + dt)
    /\ UNCHANGED <<script, twin>>

NextScroll == ScrollTick
SpecScroll == InitScroll /\ [][NextScroll]_vars

InScrolling == script.dut = "scrolling" /\ now > StartTime

\* round(n / d) as Python computes it for n, d > 0 (ties to even)
RoundHalfEven(n, d) ==
    LET q == n \div d
        r == n % d
    IN  IF 2 * r > d THEN q + 1
        ELSE IF 2 * r = d THEN q + (q % 2)
        ELSE q
Rounded(gx) ==
    LET a == RoundHalfEven(Abs(gx) * SCROLL_AMOUNT, GYRO_DEADZONE)
    IN  IF a > 1 THEN a ELSE 1

\* the scroll calls of the tick are those of the fusion rule: ScrollUp for
\* LOOK_UP with gx < -deadzone, ScrollDown for LOOK_DOWN with gx > deadzone
FusionOnly ==
    \A i \in 1..Len(actions) :
        /\ actions[i][1] = "ScrollUp" =>
               gaze_event = "LOOK_UP" /\ sample.gx < -GYRO_DEADZONE
        /\ actions[i][1] = "ScrollDown" =>
               gaze_event = "LOOK_DOWN" /\ sample.gx > GYRO_DEADZONE

\* C25: a scroll is emitted on a tick only if the vertical gaze detector
\* returned LOOK_UP with gx < -deadzone (ScrollUp) or LOOK_DOWN with
\* gx > deadzone (ScrollDown) on that tick, and its magnitude is
\* max(1, round(|gx| / deadzone * 30)).
C25_ScrollMagnitudeRounded ==
    InScrolling =>
        /\ FusionOnly
        /\ \A i \in 1..Len(actions) :
               actions[i][1] \in {"ScrollUp", "ScrollDown"} =>
                   actions[i][2] = Rounded(sample.gx)

\* what holds instead: the fusion rule, with the magnitude truncated
C25_ScrollMagnitudeTruncated ==
    InScrolling =>
        /\ FusionOnly
        /\ \A i \in 1..Len(actions) :
               actions[i][1] \in {"ScrollUp", "ScrollDown"} =>
                   actions[i][2] = ScrollAmount(sample.gx)
        /\ Count({"ScrollUp", "ScrollDown"}) <= 1

\* a scroll whose truncated magnitude differs from the rounded one
C25_Truncated ==
    /\ InScrolling /\ Emitted({"ScrollUp"}) /\ sample.gx = -306
    /\ ScrollAmount(sample.gx) = 30 /\ Rounded(sample.gx) = 31

\* gaze held with the head exactly at the deadzone: no scroll
C25_GazeAlone ==
    /\ InScrolling /\ gaze_event = "LOOK_UP" /\ sample.gx = -GYRO_DEADZONE
    /\ ~Emitted({"ScrollUp", "ScrollDown"})

(***************************************************************************)
(* Blinks during head motion: a controller fed packets with the eyes closed *)
(* and packets with the head turning (eyes open).                           *)
(***************************************************************************)
\* the clock runs from StartTime to StartTime + OrderHorizon
OrderHorizon == 900
OrderPackets == {Closed, Turn}

InitOrder ==
    /\ now = StartTime
    /\ InitObjects
    /\ \E m \in {"threshold", "statespace"} : ctl = ControllerInit(m)
    /\ script = [dut |-> "blinkturn"]

OrderTick ==
    /\ script.dut = "blinkturn"
    /\ \E dt \in CtlSteps, p \in OrderPackets :
         /\ now + dt <= StartTime + OrderHorizon
         /\ Update(p, now + dt)
    /\ UNCHANGED <<script, twin>>

NextOrder == OrderTick
SpecOrder == InitOrder /\ [][NextOrder]_vars

InOrder == script.dut = "blinkturn" /\ now > StartTime

\* C26: within one tick the cursor move, if any, is the first gui call, ahead
\* of every click, scroll and hotkey of the tick; and a tick whose own sample
\* shows a gesture (gaze beyond a threshold, gyro spike) moves nothing,
\* whatever the ticks before it were.
C26_MoveBeforeCommands ==
    InOrder =>
        /\ \A i \in 1..Len(actions) : actions[i][1] = "MoveCursor" => i = 1
        /\ (\/ GazeVertical(sample) \/ GazeHorizontal(sample)
            \/ HeadRolling(sample) \/ HeadNodding(sample)) =>
               /\ ~Emitted({"MoveCursor"})
               /\ u = <<0, 0>>
               /\ ctl.mode = "statespace" => ctl.state = <<0, 0, 0, 0>>

\* a tick of the state-space controller that moves the cursor and clicks
C26_Witness ==
    /\ InOrder /\ ctl.mode = "statespace"
    /\ Len(actions) = 2
    /\ actions[1][1] = "MoveCursor" /\ actions[2][1] = "LeftClick"

\* the same in the proportional controller, on the release of a long blink
C26_MoveAndRightClick ==
    /\ InOrder /\ ctl.mode = "threshold"
    /\ Len(actions) = 2
    /\ actions[1][1] = "MoveCursor" /\ actions[2][1] = "RightClick"

\* the first sample of a closure, arriving while the cursor is gliding
C26_FirstGestureSample ==
    /\ InOrder /\ ctl.mode = "statespace"
    /\ sample = Closed /\ blink.state = "IN_BLINK" /\ blink.blink_start_time = now
    /\ vel_before[1] # 0
    /\ actions = <<>>

(***************************************************************************)
(* The two controllers side by side: a ThresholdController (ctl) and a      *)
(* StateSpaceController (twin) are fed the same packets at the same times.  *)
(***************************************************************************)
\* the clock runs from StartTime to StartTime + PairHorizon(family)
LongPair == 1000
ShortPair == 400
PairFamilies == {"blink", "scroll", "nav", "motion"}
PairHorizon(family) == IF family \in {"blink", "nav"} THEN LongPair ELSE ShortPair

\* script.any: any_action of the latest tick, per controller
InitPair ==
    /\ now = StartTime
    /\ InitObjects
    /\ ctl = ControllerInit("threshold")
    /\ script \in {[dut |-> "pair", family |-> f,
                    any |-> [threshold |-> FALSE, statespace |-> FALSE]] :
                       f \in PairFamilies}

PairStart ==
    /\ script.dut = "pair" /\ ~twin.on
    /\ twin' = TwinInit("statespace")
    /\ UNCHANGED <<now, sample, frozen, detVars, ctlVars, before, latest,
                   script, pat, held, reader, kf, filt>>

PairTick ==
    /\ script.dut = "pair" /\ twin.on
    /\ \E dt \in CtlSteps, p \in CtlPackets(script.family) :
         /\ now + dt <= StartTime + PairHorizon(script.family)
         /\ Update(p, now + dt)
         /\ \E w \in {ControllerUpdate(twin.ctl, twin.blink, twin.gaze,
                                       twin.hgaze, twin.roll, twin.nod,
                                       p, now + dt)},
               r \in {ControllerUpdate(ctl, blink, gaze, hgaze, roll, nod,
                                       p, now + dt)} :
                /\ twin' = [on |-> TRUE, now |-> now + dt, ctl |-> w.ctl,
                            blink |-> w.blink.det, gaze |-> w.gaze.det,
                            hgaze |-> w.hgaze.det, roll |-> w.roll.det,
                            nod |-> w.nod.det, actions |-> w.actions]
                /\ script' = [script EXCEPT
                                 !.any = [threshold |-> r.any_action,
                                          statespace |-> w.any_action]]

NextPair == PairStart \/ PairTick
SpecPair == InitPair /\ [][NextPair]_vars

InPair == script.dut = "pair" /\ twin.on /\ now > StartTime

IsCommand(a) == a[1] # "MoveCursor"
NonMotion(acts) == SelectSeq(acts, IsCommand)
Moves(acts) == \E i \in 1..Len(acts) : acts[i][1] = "MoveCursor"

C27_BothClick ==
    InPair /\ actions = <<(<<"LeftClick">>)>> /\ twin.actions = actions

\* an unsuppressed tick on which both move the cursor, by different deltas
C27_DifferentDelta ==
    /\ InPair /\ ~script.any.threshold
    /\ Moves(actions) /\ Moves(twin.actions)
    /\ actions # twin.actions

(***************************************************************************)
(* Head motion alone: a controller fed packets with the eyes at rest and    *)
(* gx, gy at, just beyond and well beyond the deadzone.                     *)
(***************************************************************************)
\* the clock runs from StartTime to StartTime + GateHorizon
GateHorizon == 150
GateGyros == {0, GYRO_DEADZONE, -GYRO_DEADZONE, 301, -600}

InitGate ==
    /\ now = StartTime
    /\ InitObjects
    /\ \E m \in {"threshold", "statespace"} : ctl = ControllerInit(m)
    /\ script = [dut |-> "headmotion"]

GateTick ==
    /\ script.dut = "headmotion"
    /\ \E dt \in CtlSteps, x \in GateGyros, y \in GateGyros :
         /\ now + dt <= StartTime + GateHorizon
         /\ Update(Pkt(EOG_BASELINE, EOG_BASELINE, x, y, 0), now + dt)
    /\ UNCHANGED <<script, twin>>

NextGate == GateTick
SpecGate == InitGate /\ [][NextGate]_vars

InGate == script.dut = "headmotion" /\ now > StartTime

\* the reading of one axis, passed only when strictly beyond the deadzone
Beyond(g) == g > GYRO_DEADZONE \/ g < -GYRO_DEADZONE

\* C28: on an unsuppressed tick an axis whose gyro magnitude is at most the
\* deadzone (equal included) contributes zero: the proportional controller
\* calls moveRel with dx = gy * sensitivity if |gy| > deadzone else 0 and
\* dy = gx * sensitivity if |gx| > deadzone else 0 (no call when both are 0),
\* and the state-space controller feeds u = (gy or 0, gx or 0) likewise, each
\* axis gated on its own.  (dx, dy are held in units of the sensitivity.)
C28_DeadzoneGating ==
    InGate =>
        LET dx == IF Beyond(sample.gy) THEN sample.gy ELSE 0
            dy == IF Beyond(sample.gx) THEN sample.gx ELSE 0
        IN  /\ ctl.mode = "threshold" =>
                   actions = IF dx = 0 /\ dy = 0 THEN <<>>
                             ELSE <<(<<"MoveCursor", dx, dy>>)>>
            /\ ctl.mode = "statespace" =>
                   /\ u = <<dx, dy>>
                   /\ ctl.state[2] =
                          TruncDiv(VelRetainNum * vel_before[1], VelRetainDen) + dx
                   /\ ctl.state[4] =
                          TruncDiv(VelRetainNum * vel_before[2], VelRetainDen) + dy

\* gy exactly at the deadzone and gx just beyond it: the proportional
\* controller moves along y only
C28_Witness ==
    /\ InGate /\ ctl.mode = "threshold"
    /\ sample.gy = GYRO_DEADZONE /\ sample.gx = 301
    /\ actions = <<(<<"MoveCursor", 0, 301>>)>>

\* both axes exactly at the deadzone (either sign) while the state-space
\* cursor glides: zero input
C28_AtDeadzone ==
    /\ InGate /\ ctl.mode = "statespace"
    /\ sample.gy = -GYRO_DEADZONE /\ sample.gx = GYRO_DEADZONE
    /\ u = <<0, 0>> /\ vel_before[1] # 0

(***************************************************************************)
(* Gliding: a StateSpaceController is pushed by PushLen packets of head     *)
(* motion and then fed packets without input (gyro at rest or exactly at    *)
(* the deadzone, now and then a horizontal gaze), one every SamplePeriod.   *)
(***************************************************************************)
PushLen == 2
MaxGlide == 40
PushGyros == {0, 600, -600}
AtDeadzone == Pkt(EOG_BASELINE, EOG_BASELINE, GYRO_DEADZONE, -GYRO_DEADZONE, 0)

InitGlide ==
    /\ now = StartTime
    /\ InitObjects
    /\ ctl = ControllerInit("statespace")
    /\ script = [dut |-> "glide", k |-> 0, gazed |-> FALSE]

\* script.k: packets handed to update; script.gazed: one of them showed a
\* horizontal gaze
GlideTick ==
    /\ script.dut = "glide"
    /\ script.k < PushLen + MaxGlide
    /\ \E p \in IF script.k < PushLen
                THEN {Pkt(EOG_BASELINE, EOG_BASELINE, x, y, 0) :
                          x \in PushGyros, y \in PushGyros}
                ELSE IF script.gazed THEN {IdleSample, AtDeadzone}
                ELSE {IdleSample, AtDeadzone, LookLeft} :
         /\ Update(p, now + SamplePeriod)
         /\ script' = [script EXCEPT !.k = @ + 1,
                                     !.gazed = @ \/ GazeHorizontal(p)]
    /\ UNCHANGED twin

NextGlide == GlideTick
SpecGlide == InitGlide /\ [][NextGlide]_vars

InGlide == script.dut = "glide" /\ script.k > 0

\* C29: after every update of the StateSpaceController both position
\* components are 0; a cursor move, when one is made, is by the start-of-tick
\* velocity times dt (the same number in the scaled units held here) and is
\* made exactly when that exceeds 0.1 pixel on an unsuppressed tick; and on a
\* tick with zero input and no suppression each velocity component becomes
\* 0.95 times its value (truncated), so its magnitude does not grow and
\* shrinks while it is not 0.
C29_PositionFlushed ==
    InGlide =>
        /\ ctl.state[1] = 0 /\ ctl.state[3] = 0
        /\ actions = IF /\ ~GazeHorizontal(sample)
                        /\ Abs(vel_before[1]) > MoveMin \/ Abs(vel_before[2]) > MoveMin
                     THEN <<(<<"MoveCursor", vel_before[1], vel_before[2]>>)>>
                     ELSE <<>>
        /\ (script.k > PushLen /\ ~GazeHorizontal(sample)) =>
               \A i \in {1, 2} :
                   LET v0 == vel_before[i]
                       v1 == ctl.state[2 * i]
                   IN  /\ Abs(v1) <= Abs(v0)
                       /\ v0 # 0 => Abs(v1) < Abs(v0)
                       /\ v0 >= 0 => v1 >= 0
                       /\ v0 <= 0 => v1 <= 0
                       /\ VelRetainDen * Abs(v1) <= VelRetainNum * Abs(v0)
                       /\ VelRetainNum * Abs(v0) < VelRetainDen * (Abs(v1) + 1)

\* 20 packets into the glide the cursor still moves, by the velocity the tick
\* started with, and the velocity has shrunk
C29_Witness ==
    /\ InGlide /\ script.k = PushLen + 20 /\ ~script.gazed
    /\ actions = <<(<<"MoveCursor", vel_before[1], vel_before[2]>>)>>
    /\ vel_before[1] > 0 /\ ctl.state[2] < vel_before[1] /\ ctl.state[2] > 0
    /\ ctl.state[1] = 0

\* a gaze during the glide stops it at once
C29_GazeStopsGlide ==
    /\ InGlide /\ script.k > PushLen /\ GazeHorizontal(sample)
    /\ vel_before[1] # 0 /\ ctl.state = <<0, 0, 0, 0>> /\ actions = <<>>

(***************************************************************************)
(* SerialReader (serial_reader.py).  A raw line is the sequence of bytes    *)
(* readline() returned, one string per byte; "\xff" stands for a byte that  *)
(* is not ASCII.  pc_time (the clock at the read) is left out of a packet.  *)
(***************************************************************************)
Whitespace == {" ", "\r", "\n"}
DigitVal == [c \in {"0", "1", "2", "3", "4", "5", "6", "7", "8", "9"} |->
               CASE c = "0" -> 0 [] c = "1" -> 1 [] c = "2" -> 2 [] c = "3" -> 3
                 [] c = "4" -> 4 [] c = "5" -> 5 [] c = "6" -> 6 [] c = "7" -> 7
                 [] c = "8" -> 8 [] c = "9" -> 9]

\* raw_line.decode("ascii", errors="ignore")
IsAscii(c) == c # "\\xff"
Decode(raw) == SelectSeq(raw, IsAscii)

\* str.strip()
Strip(s) ==
    LET keep == {i \in 1..Len(s) : s[i] \notin Whitespace}
    IN  IF keep = {} THEN <<>>
        ELSE SubSeq(s, CHOOSE i \in keep : \A j \in keep : i <= j,
                       CHOOSE i \in keep : \A j \in keep : i >= j)

\* line.split(",")
RECURSIVE Split(_)
Split(s) ==
    LET commas == {i \in 1..Len(s) : s[i] = ","}
    IN  IF commas = {} THEN <<s>>
        ELSE LET k == CHOOSE i \in commas : \A j \in commas : i <= j
             IN  <<SubSeq(s, 1, k - 1)>> \o Split(SubSeq(s, k + 1, Len(s)))

\* the value of a string of decimal digits
RECURSIVE Decimal(_)
Decimal(s) ==
    IF s = <<>> THEN 0
    ELSE 10 * Decimal(SubSeq(s, 1, Len(s) - 1)) + DigitVal[s[Len(s)]]

\* int(part): surrounding whitespace is ignored, then an optional sign and
\* one or more digits; anything else raises ValueError (ok = FALSE)
IntOf(part) ==
    LET t == Strip(part)
        signed == t # <<>> /\ t[1] \in {"-", "+"}
        digits == IF signed THEN Tail(t) ELSE t
    IN  IF digits # <<>> /\ \A i \in 1..Len(digits) : digits[i] \in DOMAIN DigitVal
        THEN [ok |-> TRUE,
              val |-> IF signed /\ t[1] = "-" THEN -Decimal(digits)
                      ELSE Decimal(digits)]
        ELSE [ok |-> FALSE, val |-> 0]

SerialReaderInit == [error_count |-> 0]

\* the value returned by read_packet is held as a sequence: empty for None,
\* else the one SensorPacket
None == <<>>

\* `self._error_count % 100 == 1`; _Mut warns when the count is a multiple
\* of 100
WarnDue_Mut(error_count) == error_count % 100 = 0
WarnDue(error_count) == error_count % 100 = 1

\* the two places that count an error (wrong number of parts; ValueError)
Dropped(rd) ==
    [reader |-> [rd EXCEPT !.error_count = @ + 1], packet |-> None,
     warned |-> WarnDue(rd.error_count + 1)]

\* read_packet() when readline() returned raw: the reader afterwards, the
\* value returned and whether logger.warning was called
ReadPacket(rd, raw) ==
    LET line == Strip(Decode(raw))
        parts == Split(line)
        n(i) == IntOf(parts[i])
        quiet == [reader |-> rd, packet |-> None, warned |-> FALSE]
    IN  IF raw = <<>> THEN quiet
        ELSE IF line = <<>> THEN quiet
        ELSE IF Len(parts) = 6
        THEN IF \A i \in 1..6 : n(i).ok
             THEN [reader |-> rd, warned |-> FALSE,
                   packet |-> <<[timestamp |-> n(1).val, eog_v |-> n(2).val,
                                 eog_h |-> n(3).val, gyro_x |-> n(4).val,
                                 gyro_y |-> n(5).val, gyro_z |-> n(6).val]>>]
             ELSE Dropped(rd)
        ELSE IF Len(parts) = 5
        THEN IF \A i \in 1..5 : n(i).ok
             THEN [reader |-> rd, warned |-> FALSE,
                   packet |-> <<[timestamp |-> n(1).val, eog_v |-> n(2).val,
                                 eog_h |-> EOG_BASELINE, gyro_x |-> n(3).val,
                                 gyro_y |-> n(4).val, gyro_z |-> n(5).val]>>]
             ELSE Dropped(rd)
        ELSE Dropped(rd)

(***************************************************************************)
(* The reader's stream() loop on a port that delivers lines of 4 to 7       *)
(* parts joined by commas and ended by "\r\n", of which at most one is not  *)
(* a number, besides a few lines of other shapes.                           *)
(***************************************************************************)
\* the loop is followed up to MaxDrops counted errors
MaxDrops == 201
PartCounts == 4..7
GoodPart == <<"1", "2">>
BadPart == <<"x">>

RECURSIVE Join(_)
Join(parts) ==
    IF Len(parts) = 1 THEN parts[1]
    ELSE parts[1] \o <<",">> \o Join(Tail(parts))

Eol == <<"\r", "\n">>
\* k parts "12", the part at position bad (if any) replaced by "x"
PlainLine(k, bad) ==
    Join([i \in 1..k |-> IF i = bad THEN BadPart ELSE GoodPart]) \o Eol
PlainLines == {PlainLine(k, bad) : k \in PartCounts, bad \in 0..7}
\* readline() timed out (no bytes); a blank line; a line of one space
Timeout == <<>>
BlankLine == Eol
SpaceLine == <<" ">> \o Eol
\* five parts with signs and padding that int() accepts: 7,-3, 5,+4,0
SignedLine ==
    Join(<<(<<"7">>), <<"-", "3">>, <<" ", "5">>, <<"+", "4">>, <<"0">>>>) \o Eol
\* six parts, a byte that is not ASCII inside the first number
NoisyLine ==
    Join(<<(<<"1", "\\xff", "2">>), <<"3">>, <<"4">>, <<"5">>, <<"6">>,
           <<"7">>>>) \o Eol
\* five parts of which one is empty; six parts of which one is 2.5
EmptyPartLine ==
    Join(<<(<<"1">>), <<>>, <<"3">>, <<"4">>, <<"5">>>>) \o Eol
DecimalLine ==
    Join(<<(<<"1">>), <<"2", ".", "5">>, <<"3">>, <<"4">>, <<"5">>,
           <<"6">>>>) \o Eol
OddLines == {Timeout, BlankLine, SpaceLine, SignedLine, NoisyLine,
             EmptyPartLine, DecimalLine}
RawLines == PlainLines \cup OddLines

InitSerial ==
    /\ now = 0
    /\ InitObjects
    /\ ctl = ControllerInit("none")
    /\ script = [dut |-> "serial", raw |-> <<>>, packet |-> None,
                 warned |-> FALSE, was |-> 0]

\* one turn of the loop of stream(): script.packet is the packet yielded
\* (None: nothing yielded on this turn), script.raw the line read,
\* script.was the error count before the read
StreamRead ==
    /\ script.dut = "serial"
    /\ reader.error_count < MaxDrops
    /\ \E raw \in RawLines :
         \E r \in {ReadPacket(reader, raw)} :
            /\ reader' = r.reader
            /\ script' = [script EXCEPT !.raw = raw, !.packet = r.packet,
                                        !.warned = r.warned,
                                        !.was = reader.error_count]
    /\ UNCHANGED <<now, sample, frozen, detVars, ctlVars, before, latest,
                   ghostVars, kf, filt>>

NextSerial == StreamRead
SpecSerial == InitSerial /\ [][NextSerial]_vars

InSerial == script.dut = "serial"
Packet(t, v, h, x, y, z) ==
    <<[timestamp |-> t, eog_v |-> v, eog_h |-> h, gyro_x |-> x, gyro_y |-> y,
      gyro_z |-> z]>>
CountedDrop == script.packet = None /\ reader.error_count = script.was + 1
NotCounted == reader.error_count = script.was /\ ~script.warned

\* C30 as stated: every line that is not a well-formed 5- or 6-part integer
\* packet is dropped and counted, and a warning is logged exactly on the
\* drops that make the count a multiple of 100.
C30_WarnOnMultiplesOf100 ==
    (InSerial /\ script.raw # Timeout) =>
        /\ script.raw \notin {PlainLine(5, 0), PlainLine(6, 0), SignedLine} =>
               CountedDrop
        /\ script.warned <=> (CountedDrop /\ reader.error_count % 100 = 0)

\* C30, amended: a line that, with the bytes that are not ASCII discarded and
\* surrounding whitespace stripped, is empty is skipped without being counted
\* (as is a read that timed out); one that splits at commas into 5 or 6 parts
\* that int() accepts is yielded as a packet (eog_h = 2048 for 5 parts); any
\* other line yields nothing and adds one to the drop count, and a warning is
\* logged exactly on the drops that make the count 1 modulo 100: the first,
\* the 101st, the 201st.
C30_WarnOnFirstOfEach100 ==
    InSerial =>
        /\ script.warned => CountedDrop
        /\ CASE script.raw \in {Timeout, BlankLine, SpaceLine} ->
                    script.packet = None /\ NotCounted
             [] script.raw = PlainLine(6, 0) ->
                    script.packet = Packet(12, 12, 12, 12, 12, 12) /\ NotCounted
             [] script.raw = PlainLine(5, 0) ->
                    /\ script.packet = Packet(12, 12, EOG_BASELINE, 12, 12, 12)
                    /\ NotCounted
             [] script.raw = SignedLine ->
                    /\ script.packet = Packet(7, -3, EOG_BASELINE, 5, 4, 0)
                    /\ NotCounted
             [] script.raw = NoisyLine ->
                    script.packet = Packet(12, 3, 4, 5, 6, 7) /\ NotCounted
             [] OTHER ->
                    /\ CountedDrop
                    /\ script.warned <=> reader.error_count % 100 = 1

\* the 101st drop, a six-part line with a part that is not a number: warned
C30_Witness ==
    /\ InSerial /\ reader.error_count = 101 /\ script.was = 100
    /\ script.raw = PlainLine(6, 3)
    /\ script.packet = None /\ script.warned

\* the 100th drop: no warning
C30_HundredthDrop ==
    /\ InSerial /\ reader.error_count = 100 /\ script.was = 99
    /\ ~script.warned

\* the first drop: warned
C30_FirstDrop ==
    /\ InSerial /\ reader.error_count = 1 /\ script.was = 0
    /\ script.raw = PlainLine(4, 0) /\ script.warned

\* a blank line after some drops: nothing yielded, nothing counted
C30_BlankLine ==
    /\ InSerial /\ script.raw = BlankLine /\ script.was = 1
    /\ script.packet = None /\ reader.error_count = 1

\* a packet yielded after a dropped line: the stream goes on
C30_StreamContinues ==
    /\ InSerial /\ script.was = 2 /\ script.raw = PlainLine(5, 0)
    /\ script.packet # None

(***************************************************************************)
(* A GyroKalmanFilter fed a constant raw reading                            *)
(* (TestGyroKalmanFilter.test_tracks_constant_bias).                        *)
(***************************************************************************)
\* samples fed in the test, and the last sample followed
KalmanSamples == 2000
MaxKalman == 2005
\* the readings held constant (raw gyro units)
KalmanReadings == {300, 200}
\* delta of the test's assertAlmostEqual
KalmanDelta == 30

InitKalman ==
    /\ now = 0
    /\ InitObjects
    /\ ctl = ControllerInit("none")
    /\ \E z \in KalmanReadings :
          script = [dut |-> "kalman", z |-> z, n |-> 0, omega |-> 0]

\* one pass of the loop `omega = kf.update(z)`
KalmanFeed ==
    /\ script.dut = "kalman"
    /\ script.n < MaxKalman
    /\ \E r \in {KalmanUpdate(kf, script.z * FScale)} :
          /\ kf' = r.kf
          /\ script' = [script EXCEPT !.n = @ + 1, !.omega = r.omega]
    /\ UNCHANGED <<now, sample, frozen, detVars, ctlVars, before, latest,
                   ghostVars, reader, filt>>

NextKalman == KalmanFeed
SpecKalman == InitKalman /\ [][NextKalman]_vars

InKalman == script.dut = "kalman"
Within(a, b, delta) == Abs(a - b) <= delta * FScale

\* C31: fed the constant reading 300 from bias 0, after 2000 samples the
\* estimate returned is within 30 of 0 and the bias estimate within 30 of
\* 300 (and of 200 for the reading 200).
C31_BiasConverges ==
    (InKalman /\ script.n >= KalmanSamples) =>
        /\ Within(script.omega, 0, KalmanDelta)
        /\ Within(GetBias(kf), script.z * FScale, KalmanDelta)

\* the 2000th sample of the reading 300 has been processed
C31_Witness ==
    /\ InKalman /\ script.n = KalmanSamples /\ script.z = 300
    /\ Within(script.omega, 0, KalmanDelta)
    /\ Within(GetBias(kf), 300 * FScale, KalmanDelta)

\* at the start the reading is split between the two states: after the first
\* sample neither estimate is within 30 of its final value
C31_FirstSample ==
    /\ InKalman /\ script.n = 1 /\ script.z = 300
    /\ ~Within(script.omega, 0, KalmanDelta)
    /\ ~Within(GetBias(kf), 300 * FScale, KalmanDelta)

\* the estimates never overshoot: 0 <= omega and bias <= reading
C31_NoOvershoot ==
    InKalman => script.omega >= 0 /\ GetBias(kf) <= script.z * FScale

(***************************************************************************)
(* An EOGLowPassFilter fed a constant level from its first sample or from   *)
(* the first sample after reset() (TestEOGLowPassFilter.test_preserves_dc). *)
(***************************************************************************)
\* samples in one second at SAMPLE_RATE = 200 Hz, and the last one followed
SAMPLE_RATE == 200
MaxFiltered == 200
\* the input levels (ADC counts)
EogLevels == {EOG_BASELINE, BLINK_THRESHOLD, 0, 4095}
\* a level change without reset() comes at most this many samples after the
\* seeding
MaxChangeAt == 2

InitLowPass ==
    /\ now = 0
    /\ InitObjects
    /\ ctl = ControllerInit("none")
    /\ \E v \in EogLevels :
          script = [dut |-> "lowpass", v |-> v, n |-> 0, filtered |-> 0,
                    const |-> TRUE, resets |-> 0]

\* filt.filter_sample(v): n counts the samples since the filter was seeded
FilterFeed ==
    /\ script.dut = "lowpass"
    /\ script.n < MaxFiltered
    /\ \E r \in {FilterSample(filt, script.v * FScale)} :
          /\ filt' = r.filt
          /\ script' = [script EXCEPT !.n = @ + 1, !.filtered = r.filtered]
    /\ UNCHANGED <<now, sample, frozen, detVars, ctlVars, before, latest,
                   ghostVars, reader, kf>>

\* the input level changes while the filter runs on
LevelChange ==
    /\ script.dut = "lowpass"
    /\ script.const /\ script.resets = 0
    /\ script.n \in 1..MaxChangeAt
    /\ \E v \in EogLevels \ {script.v} :
          script' = [script EXCEPT !.v = v, !.const = FALSE]
    /\ UNCHANGED <<now, sample, frozen, detVars, ctlVars, before, latest,
                   ghostVars, reader, kf, filt>>

\* filt.reset(), after which another level is fed
ResetFilter ==
    /\ script.dut = "lowpass"
    /\ script.resets = 0 /\ script.n > 0
    /\ filt' = FilterReset(filt)
    /\ \E v \in EogLevels :
          script' = [script EXCEPT !.v = v, !.n = 0, !.const = TRUE,
                                   !.resets = 1]
    /\ UNCHANGED <<now, sample, frozen, detVars, ctlVars, before, latest,
                   ghostVars, reader, kf>>

NextLowPass == FilterFeed \/ LevelChange \/ ResetFilter
SpecLowPass == InitLowPass /\ [][NextLowPass]_vars

InLowPass == script.dut = "lowpass"
\* within 1 % of the level v
NearLevel(y, v) == Abs(y - v * FScale) <= (v * FScale) \div 100

\* C32: on a fresh or just-reset filter fed a constant level v, every output
\* from the first on is within 1 % of v.
C32_NoStartupRamp ==
    (InLowPass /\ script.const /\ script.n >= 1) =>
        NearLevel(script.filtered, script.v)

\* the first sample after a reset that followed a run at another level
C32_Witness ==
    /\ InLowPass /\ script.resets = 1 /\ script.n = 1 /\ script.v = EOG_BASELINE
    /\ NearLevel(script.filtered, EOG_BASELINE)

\* one second of the baseline on a fresh filter
C32_OneSecond ==
    /\ InLowPass /\ script.resets = 0 /\ script.const
    /\ script.n = SAMPLE_RATE /\ script.v = EOG_BASELINE
    /\ NearLevel(script.filtered, EOG_BASELINE)

\* without a reset a level change is followed by a transient
C32_Transient ==
    /\ InLowPass /\ ~script.const /\ script.resets = 0
    /\ ~NearLevel(script.filtered, script.v)

\* the release of a high run that lasted LONG_BLINK_MIN_DURATION up to
\* LONG_BLINK_MAX_DURATION
LongRelease ==
    /\ blink.state = "IN_BLINK" /\ now' # now
    /\ ~IsHigh(sample'.eog_v)
    /\ LongEnough(now' - blink.blink_start_time)
    /\ WithinLongMax(now' - blink.blink_start_time)

C33_Step ==
    InBlinkFeed =>
        /\ (LongRelease /\ blink.blink_count >= 2) =>
               blink_event' = "NONE" /\ blink'.state = "IDLE"
        /\ (now' # now /\ blink_event' = "LONG_BLINK") =>
               LongRelease /\ blink.blink_count = 1

\* C33: LONG_BLINK is returned only on the release of the first high run of a
\* sequence (blink_count = 1); the release of a second or third run that
\* lasted LONG_MIN..LONG_MAX returns NONE and leaves the FSM in IDLE.
C33_LongOnlyFirst == [][C33_Step]_vars

\* the second run of a sequence released after 400 ms or more, no cooldown
\* pending: nothing returned
C33_Witness ==
    /\ InBlinkFeed /\ pat.n = 2 /\ pat.r = now
    /\ LongEnough(pat.r - pat.s)
    /\ blink.blink_count = 2 /\ blink.last_event_time = FAR_PAST
    /\ blink.state = "IDLE" /\ blink_event = "NONE"

\* the same for the third run
C33_ThirdRun ==
    /\ InBlinkFeed /\ pat.n = 3 /\ pat.r = now
    /\ LongEnough(pat.r - pat.s)
    /\ blink.blink_count = 3 /\ blink.last_event_time = FAR_PAST
    /\ blink.state = "IDLE" /\ blink_event = "NONE"

\* a first run of that length is a long blink
C33_FirstRun ==
    /\ InBlinkFeed /\ pat.n = 1 /\ pat.r = now
    /\ LongEnough(pat.r - pat.s) /\ blink_event = "LONG_BLINK"

(***************************************************************************)
(* A BlinkDetector and a vertical GazeDetector fed the same eog_v samples   *)
(* and timestamps, as sections 2 and 3 of the controllers' update do.       *)
(***************************************************************************)
\* last timestamp fed
MaxBoth == 1000
\* eog_v values fed: baseline, a blink, a level between LOOK_UP_THRESHOLD and
\* BLINK_THRESHOLD, a level below LOOK_DOWN_THRESHOLD
BothSamples == {EOG_BASELINE, 3500, 2900, 1000}

InitBoth ==
    /\ now = 0
    /\ InitObjects
    /\ ctl = ControllerInit("none")
    /\ script = [dut |-> "blinkgaze"]

BlinkGazeStep ==
    /\ script.dut = "blinkgaze"
    /\ \E dt \in DetSteps, e \in BothSamples :
         /\ now + dt <= MaxBoth
         /\ now' = now + dt
         /\ sample' = [sample EXCEPT !.eog_v = e]
         /\ held' = [held EXCEPT !.v = HeldNext(@, VClass(e), now + dt)]
         /\ \E r \in {BlinkUpdate(blink, e, now + dt)} :
                /\ blink' = r.det
                /\ blink_event' = r.ev
                /\ before' = Shift(before, latest, "blink")
                /\ latest' = Stamp(latest, "blink", r.ev # "NONE", now + dt)
         /\ \E r \in {GazeUpdate(gaze, e, now + dt)} :
                /\ gaze' = r.det
                /\ gaze_event' = r.ev
    /\ UNCHANGED <<frozen, hgaze, horiz_event, roll, roll_event, nod,
                   nod_event, ctlVars, script, vel_before, spike_last,
                   roll_ref, roll_ref_event, nod_ref, nod_ref_event, pat,
                   twin, reader, kf, filt>>

NextBoth == BlinkGazeStep
SpecBoth == InitBoth /\ [][NextBoth]_vars

InBoth == script.dut = "blinkgaze"

\* C34 as stated: on no sample do the blink detector and the vertical gaze
\* detector both return an event.
C34_BlinkExcludesGaze ==
    InBoth => ~(blink_event # "NONE" /\ gaze_event # "NONE")

\* what holds: LONG_BLINK and TRIPLE_BLINK, returned on the first sample after
\* a high one, never coincide with a gaze event; only DOUBLE_BLINK does
C34_ReleaseExcludesGaze ==
    InBoth => (blink_event \in {"LONG_BLINK", "TRIPLE_BLINK"} =>
                   gaze_event = "NONE")

\* DOUBLE_BLINK returned at the end of the wait for a third blink, on a sample
\* of a gaze held upwards since the second release
C34_DoubleBlinkWithLookUp ==
    /\ InBoth /\ blink_event = "DOUBLE_BLINK" /\ gaze_event = "LOOK_UP"
    /\ sample.eog_v = 2900

C34_DoubleBlinkWithLookDown ==
    /\ InBoth /\ blink_event = "DOUBLE_BLINK" /\ gaze_event = "LOOK_DOWN"

\* first_nod_time is empty or at most DOUBLE_NOD_WINDOW old
FirstNodFresh ==
    nod.first_nod_time = NoTime \/ now - nod.first_nod_time <= DOUBLE_NOD_WINDOW

\* C35 as stated: after every sample processed with cursor_frozen true,
\* first_nod_time is empty or at most DOUBLE_NOD_WINDOW older than the sample,
\* samples with |gx| above the threshold included.
C35_FirstNodNeverStale ==
    (InNodFeed /\ now > 0 /\ frozen) => FirstNodFresh

\* what holds: the same after the samples with |gx| not above the threshold
C35_FreshAfterLowSample ==
    (InNodFeed /\ now > 0 /\ frozen /\ ~Above(sample.gx)) => FirstNodFresh

\* a first nod older than the window, kept through a pulse that is being held
C35_StaleDuringPulse ==
    /\ InNodFeed /\ now > 0 /\ frozen /\ Above(sample.gx)
    /\ nod.first_nod_time # NoTime
    /\ now - nod.first_nod_time > DOUBLE_NOD_WINDOW

(***************************************************************************)
(* A detector that is reset at some point of its run, and a freshly         *)
(* constructed detector of the same class (script.det), both fed the same   *)
(* samples and timestamps from then on.                                     *)
(***************************************************************************)
\* latest time of the reset, and last timestamp fed after it
ResetBy == 500
MaxFresh == 1000

FreshDetector(kind) ==
    CASE kind = "blink" -> BlinkDetectorInit
      [] kind = "gaze" -> GazeDetectorInit
      [] kind = "hgaze" -> HorizontalGazeDetectorInit
      [] kind = "roll" -> HeadRollDetectorInit
      [] kind = "nod" -> DoubleNodDetectorInit

\* reset() of the detector under test and construction of the other one;
\* script.from is the FSM state (the gaze) the reset found, script.last the
\* time of the latest event the detector had returned
ResetBeside ==
    /\ script.dut \in DetKinds
    /\ now <= ResetBy
    /\ script' = [dut |-> "beside", was |-> script.dut,
                  from |-> CASE script.dut = "blink" -> blink.state
                             [] script.dut = "gaze" -> gaze.current_gaze
                             [] script.dut = "hgaze" -> hgaze.current_gaze
                             [] OTHER -> "-",
                  last |-> CASE script.dut = "blink" -> blink.last_event_time
                             [] script.dut = "gaze" -> FAR_PAST
                             [] script.dut = "hgaze" -> hgaze.last_trigger_time
                             [] script.dut = "roll" -> roll.last_trigger_time
                             [] script.dut = "nod" -> nod.last_trigger_time,
                  det |-> FreshDetector(script.dut),
                  ev |-> IF script.dut \in {"roll", "nod"} THEN "None" ELSE "NONE"]
    /\ blink' = IF script.dut = "blink" THEN BlinkReset(blink) ELSE blink
    /\ gaze' = IF script.dut = "gaze" THEN GazeReset(gaze) ELSE gaze
    /\ hgaze' = IF script.dut = "hgaze" THEN HGazeReset(hgaze) ELSE hgaze
    /\ roll' = IF script.dut = "roll" THEN RollReset(roll) ELSE roll
    /\ nod' = IF script.dut = "nod" THEN NodReset(nod) ELSE nod
    /\ blink_event' = "NONE" /\ gaze_event' = "NONE" /\ horiz_event' = "NONE"
    /\ roll_event' = "None" /\ nod_event' = "None"
    /\ before' = Never /\ latest' = Never
    /\ UNCHANGED <<now, sample, frozen, ctlVars, ghostVars, reader, kf, filt>>

\* one sample to both detectors
BesideFeed ==
    /\ script.dut = "beside"
    /\ \E dt \in DetSteps, f \in BOOLEAN :
         /\ now + dt <= MaxFresh
         /\ now' = now + dt
         /\ frozen' = (f /\ script.was \in {"roll", "nod"})
         /\ \/ /\ script.was = "blink"
               /\ \E e \in BlinkSamples :
                    \E r \in {BlinkUpdate(blink, e, now + dt)},
                       s \in {BlinkUpdate(script.det, e, now + dt)} :
                        /\ sample' = [sample EXCEPT !.eog_v = e]
                        /\ blink' = r.det /\ blink_event' = r.ev
                        /\ script' = [script EXCEPT !.det = s.det, !.ev = s.ev]
               /\ UNCHANGED <<gaze, gaze_event, hgaze, horiz_event, roll,
                              roll_event, nod, nod_event>>
            \/ /\ script.was = "gaze"
               /\ \E e \in GazeSamples :
                    \E r \in {GazeUpdate(gaze, e, now + dt)},
                       s \in {GazeUpdate(script.det, e, now + dt)} :
                        /\ sample' = [sample EXCEPT !.eog_v = e]
                        /\ gaze' = r.det /\ gaze_event' = r.ev
                        /\ script' = [script EXCEPT !.det = s.det, !.ev = s.ev]
               /\ UNCHANGED <<blink, blink_event, hgaze, horiz_event, roll,
                              roll_event, nod, nod_event>>
            \/ /\ script.was = "hgaze"
               /\ \E e \in HGazeSamples :
                    \E r \in {HGazeUpdate(hgaze, e, now + dt)},
                       s \in {HGazeUpdate(script.det, e, now + dt)} :
                        /\ sample' = [sample EXCEPT !.eog_h = e]
                        /\ hgaze' = r.det /\ horiz_event' = r.ev
                        /\ script' = [script EXCEPT !.det = s.det, !.ev = s.ev]
               /\ UNCHANGED <<blink, blink_event, gaze, gaze_event, roll,
                              roll_event, nod, nod_event>>
            \/ /\ script.was = "roll"
               /\ \E g \in GyroSamples :
                    \E r \in {RollUpdate(roll, g, now + dt, f)},
                       s \in {RollUpdate(script.det, g, now + dt, f)} :
                        /\ sample' = [sample EXCEPT !.gz = g]
                        /\ roll' = r.det /\ roll_event' = r.ev
                        /\ script' = [script EXCEPT !.det = s.det, !.ev = s.ev]
               /\ UNCHANGED <<blink, blink_event, gaze, gaze_event, hgaze,
                              horiz_event, nod, nod_event>>
            \/ /\ script.was = "nod"
               /\ \E g \in GyroSamples :
                    \E r \in {NodUpdate(nod, g, now + dt, f)},
                       s \in {NodUpdate(script.det, g, now + dt, f)} :
                        /\ sample' = [sample EXCEPT !.gx = g]
                        /\ nod' = r.det /\ nod_event' = r.ev
                        /\ script' = [script EXCEPT !.det = s.det, !.ev = s.ev]
               /\ UNCHANGED <<blink, blink_event, gaze, gaze_event, hgaze,
                              horiz_event, roll, roll_event>>
    /\ UNCHANGED <<ctlVars, before, latest, ghostVars, reader, kf, filt>>

\* the run before the reset
EarlyStep == NextDet /\ now' <= ResetBy

NextBeside == EarlyStep \/ ResetBeside \/ BesideFeed
SpecBeside == InitDet /\ [][NextBeside]_vars

InBeside == script.dut = "beside"
\* the event returned by the latest call of the detector that was reset
ResetEvent ==
    CASE script.was = "blink" -> blink_event
      [] script.was = "gaze" -> gaze_event
      [] script.was = "hgaze" -> horiz_event
      [] script.was = "roll" -> roll_event
      [] script.was = "nod" -> nod_event

\* C36: from reset() on, a detector returns on every sample the event that a
\* freshly constructed detector of its class returns on the same samples and
\* timestamps.
C36_ResetLikeFresh ==
    InBeside => ResetEvent = script.ev

\* a second blink begun after the reset by a detector that was reset while
\* waiting for a third blink: blink_end_time differs, the events do not
C36_LeftoverFields ==
    /\ InBeside /\ script.was = "blink" /\ script.from = "WAIT_THIRD"
    /\ blink.blink_end_time # script.det.blink_end_time
    /\ blink_event = "NONE" /\ script.ev = "NONE"
    /\ blink.state = "IN_BLINK" /\ script.det.state = "IN_BLINK"

\* a long blink returned within LONG_BLINK_COOLDOWN of one returned before
\* the reset
C36_Witness ==
    /\ InBeside /\ script.was = "blink" /\ script.last # FAR_PAST
    /\ now - script.last <= LONG_BLINK_COOLDOWN
    /\ blink_event = "LONG_BLINK" /\ script.ev = "LONG_BLINK"

\* a gaze event from a detector reset in the middle of a gaze
C36_GazeAgain ==
    /\ InBeside /\ script.was = "gaze" /\ script.from = "LOOK_UP"
    /\ gaze_event = "LOOK_UP" /\ script.ev = "LOOK_UP"

\* a horizontal gaze event, a flick and a double nod returned after the
\* reset within the cooldown of one returned before it
C36_HGazeAgain ==
    /\ InBeside /\ script.was = "hgaze" /\ script.last # FAR_PAST
    /\ now - script.last <= HORIZONTAL_GAZE_COOLDOWN
    /\ horiz_event # "NONE" /\ script.ev = horiz_event

C36_FlickAgain ==
    /\ InBeside /\ script.was = "roll" /\ script.last # FAR_PAST
    /\ now - script.last <= HEAD_ROLL_COOLDOWN
    /\ roll_event # "None" /\ script.ev = roll_event

C36_NodAgain ==
    /\ InBeside /\ script.was = "nod" /\ script.last # FAR_PAST
    /\ now - script.last <= DOUBLE_NOD_COOLDOWN
    /\ nod_event # "None" /\ script.ev = nod_event

\* blink_count in each state of the blink FSM
BlinkCounts(d) ==
    /\ d.state = "WAIT_SECOND" => d.blink_count = 1
    /\ d.state = "WAIT_THIRD" => d.blink_count = 2
    /\ d.state = "IN_BLINK" => d.blink_count \in {1, 2, 3}

C37_Step ==
    (InBlinkFeed /\ now' # now) =>
        /\ BlinkCounts(blink')
        /\ blink_event' # "NONE" =>
               blink'.state = "IDLE" /\ blink'.last_event_time = now'
        /\ blink_event' = "NONE" =>
               blink'.last_event_time = blink.last_event_time

\* C37: in every state of a BlinkDetector, WAIT_SECOND comes with
\* blink_count 1, WAIT_THIRD with 2 and IN_BLINK with 1, 2 or 3; a call that
\* returns an event leaves the FSM in IDLE with last_event_time = now, a call
\* that returns NONE leaves last_event_time as it was.
C37_BlinkStructure == [][C37_Step]_vars

\* the third blink of a sequence in progress after an earlier event: IN_BLINK
\* with blink_count 3, last_event_time still that of the event
C37_Witness ==
    /\ InBlinkFeed /\ blink.state = "IN_BLINK" /\ blink.blink_count = 3
    /\ blink_event = "NONE"
    /\ blink.last_event_time # FAR_PAST /\ blink.last_event_time = latest.blink

\* an event just returned
C37_EventStamped ==
    /\ InBlinkFeed /\ blink_event = "TRIPLE_BLINK"
    /\ blink.state = "IDLE" /\ blink.last_event_time = now

\* the same structure in the detectors that are reset in the course of their
\* run (after reset(): IDLE with blink_count 0)
C37_CountsAcrossReset ==
    script.dut \in {"blink", "beside"} => BlinkCounts(blink)

(***************************************************************************)
(* The blink detector with the patterns that complete inside a cooldown     *)
(* recorded: script.first is the time the FSM last left IDLE (the first     *)
(* high sample of the pattern in progress), script.drop the time of the     *)
(* latest completion that the cooldown blocked, script.kind its pattern.     *)
(***************************************************************************)
\* last timestamp fed
DropHorizon == 1400

\* the pattern that the sample e at time t completes in detector d: the
\* release of a third blink or of a long first blink, the end of the wait
\* for a third blink
Completes(d, e, t) ==
    LET duration == t - d.blink_start_time
        elapsed == t - d.blink_end_time
    IN  IF d.state = "IN_BLINK" /\ ~IsHigh(e) /\ ~TooShort(duration)
        THEN IF d.blink_count >= 3
             THEN IF duration <= BLINK_MAX_DURATION THEN "TRIPLE_BLINK" ELSE "NONE"
             ELSE IF d.blink_count >= 2 THEN "NONE"
             ELSE IF LongEnough(duration) /\ WithinLongMax(duration)
             THEN "LONG_BLINK" ELSE "NONE"
        ELSE IF /\ d.state = "WAIT_THIRD" /\ elapsed >= TRIPLE_BLINK_WINDOW
        THEN "DOUBLE_BLINK"
        ELSE "NONE"

CooldownOf(kind) ==
    CASE kind = "DOUBLE_BLINK" -> DOUBLE_BLINK_COOLDOWN
      [] kind = "TRIPLE_BLINK" -> TRIPLE_BLINK_COOLDOWN
      [] kind = "LONG_BLINK" -> LONG_BLINK_COOLDOWN

\* the completion comes while the cooldown since last_event_time runs
Blocked(d, e, t) ==
    /\ Completes(d, e, t) # "NONE"
    /\ t - d.last_event_time <= CooldownOf(Completes(d, e, t))

InitDrop ==
    /\ now = 0
    /\ InitObjects
    /\ ctl = ControllerInit("none")
    /\ script = [dut |-> "dropfeed", first |-> NoTime, drop |-> NoTime,
                 kind |-> "NONE"]

DropFeed ==
    /\ script.dut = "dropfeed"
    /\ \E dt \in DetSteps, e \in BlinkSamples :
         /\ now + dt <= DropHorizon
         /\ now' = now + dt
         /\ sample' = [sample EXCEPT !.eog_v = e]
         /\ \E r \in {BlinkUpdate(blink, e, now + dt)} :
                /\ blink' = r.det
                /\ blink_event' = r.ev
                /\ script' =
                     [script EXCEPT
                        !.first = IF blink.state = "IDLE" /\ r.det.state # "IDLE"
                                  THEN now + dt ELSE @,
                        !.drop = IF Blocked(blink, e, now + dt) THEN now + dt ELSE @,
                        !.kind = IF Blocked(blink, e, now + dt)
                                 THEN Completes(blink, e, now + dt) ELSE @]
    /\ UNCHANGED <<frozen, gaze, gaze_event, hgaze, horiz_event, roll,
                   roll_event, nod, nod_event, ctlVars, before, latest,
                   ghostVars, reader, kf, filt>>

NextDrop == DropFeed
SpecDrop == InitDrop /\ [][NextDrop]_vars

InDropFeed == script.dut = "dropfeed"

C38_Step ==
    (InDropFeed /\ now' # now) =>
        /\ Blocked(blink, sample'.eog_v, now') =>
               blink_event' = "NONE" /\ blink'.state = "IDLE"
        /\ (blink_event' # "NONE" /\ script.drop # NoTime) =>
               script'.first > script.drop

\* C38: a double, triple or long blink that completes while the cooldown has
\* not elapsed returns NONE and sends the FSM to IDLE on that sample, and
\* every event returned later belongs to a pattern whose first high sample
\* came after it: the blocked pattern is never reported.
C38_BlockedPatternDropped == [][C38_Step]_vars

\* a double blink blocked by the cooldown of a long blink, the cooldown
\* expired since and nothing returned
C38_Witness ==
    /\ InDropFeed /\ script.drop # NoTime /\ script.kind = "DOUBLE_BLINK"
    /\ now - blink.last_event_time > DOUBLE_BLINK_COOLDOWN
    /\ blink.last_event_time < script.drop
    /\ blink.state = "IDLE" /\ blink_event = "NONE"

\* a long blink and a triple blink blocked
C38_LongBlocked ==
    /\ InDropFeed /\ script.drop = now /\ script.kind = "LONG_BLINK"
    /\ blink.state = "IDLE" /\ blink_event = "NONE"

C38_TripleBlocked ==
    /\ InDropFeed /\ script.drop = now /\ script.kind = "TRIPLE_BLINK"
    /\ blink.state = "IDLE" /\ blink_event = "NONE"

\* an event after a blocked pattern, from a pattern begun after it
C38_NewPattern ==
    /\ InDropFeed /\ script.drop # NoTime /\ blink_event # "NONE"
    /\ script.first > script.drop

C39_Step ==
    /\ (InRollFeed /\ now' # now) =>
           /\ ~frozen' => roll'.last_trigger_time = roll.last_trigger_time
           /\ roll_event' # "None" => now' - latest.roll > HEAD_ROLL_COOLDOWN
    /\ (InNodFeed /\ now' # now) =>
           /\ ~frozen' => nod'.last_trigger_time = nod.last_trigger_time
           /\ nod_event' # "None" => now' - latest.nod > DOUBLE_NOD_COOLDOWN

\* C39: a sample with cursor_frozen false leaves last_trigger_time of the
\* roll and nod detectors as it was, and an event is returned only more than
\* the cooldown (1.0 s) after the previous one, whatever unfrozen samples lie
\* between.
C39_CooldownSurvivesUnfreeze == [][C39_Step]_vars

\* a quick roll pulse, the first since an unfrozen sample that followed a
\* flick, released within the cooldown of that flick: nothing returned
C39_Witness ==
    /\ InRollFeed /\ frozen /\ latest.roll # FAR_PAST
    /\ script.q.evs = 0 /\ script.q.n = 1
    /\ script.q.r = now /\ now - script.q.s <= HEAD_ROLL_MAX_DURATION
    /\ now - latest.roll <= HEAD_ROLL_COOLDOWN
    /\ roll.last_trigger_time = latest.roll
    /\ roll_event = "None"

\* two quick nods within the window, the first since an unfrozen sample that
\* followed a DoubleNod, inside its cooldown: nothing returned
C39_NodAcrossUnfreeze ==
    /\ InNodFeed /\ frozen /\ latest.nod # FAR_PAST
    /\ script.q.evs = 0 /\ script.q.n = 2 /\ script.q.v
    /\ script.q.r = now /\ now - script.q.r1 <= DOUBLE_NOD_WINDOW
    /\ now - script.q.s <= DOUBLE_NOD_MAX_DURATION
    /\ now - latest.nod <= DOUBLE_NOD_COOLDOWN
    /\ nod.last_trigger_time = latest.nod
    /\ nod_event = "None"

(***************************************************************************)
(* Gaze and head turn: a controller is ticked every FusionStep ms with the  *)
(* horizontal EOG at rest, beyond the left or beyond the right threshold    *)
(* and the head still or turning left or right, in any order.  script.gaze  *)
(* keeps the first sample of the unbroken run of samples on the present     *)
(* side of the thresholds.                                                  *)
(***************************************************************************)
FusionStep == 50
FusionHorizon == 450
FusionGazes == {EOG_BASELINE, 1000, 3000}
FusionTurns == {0, -600, 600}

InitFusion ==
    /\ now = StartTime
    /\ InitObjects
    /\ \E m \in {"threshold", "statespace"} : ctl = ControllerInit(m)
    /\ script = [dut |-> "fusion", gaze |-> [class |-> "NONE", since |-> 0]]

FusionTick ==
    /\ script.dut = "fusion"
    /\ now + FusionStep <= StartTime + FusionHorizon
    /\ \E eh \in FusionGazes, y \in FusionTurns :
         /\ Update(Pkt(EOG_BASELINE, eh, 0, y, 0), now + FusionStep)
         /\ script' = [script EXCEPT
                         !.gaze = HeldNext(@, HClass(eh), now + FusionStep)]
    /\ UNCHANGED twin

NextFusion == FusionTick
SpecFusion == InitFusion /\ [][NextFusion]_vars

InFusion == script.dut = "fusion" /\ now > StartTime

\* the gaze has been beyond the threshold of side c for at least 150 ms at
\* the tick just made
HeldBeyond(c) ==
    /\ script'.gaze.class = c
    /\ now' - script'.gaze.since >= HGAZE_MIN_DURATION

\* no navigation action in the 1.0 s before the tick just made
NavQuiet == now' - ctl.last_nav_time > HORIZONTAL_GAZE_COOLDOWN

NavEmitted(kind) == \E i \in 1..Len(actions') : actions'[i][1] = kind

\* C40: on every tick where eog_h has been held beyond the left (right)
\* threshold for at least 150 ms, gy is below -deadzone (above deadzone) and
\* no navigation action fired in the last 1.0 s, the controller emits NavBack
\* (NavForward), also when the head turn begins after the gaze has been held
\* for 150 ms
C40_Step ==
    /\ (HeldBeyond("LOOK_LEFT") /\ sample'.gy < -GYRO_DEADZONE /\ NavQuiet)
          => NavEmitted("NavBack")
    /\ (HeldBeyond("LOOK_RIGHT") /\ sample'.gy > GYRO_DEADZONE /\ NavQuiet)
          => NavEmitted("NavForward")
C40_CombinedGestureAnswered == [][InFusion' => C40_Step]_vars

\* what the controller does: NavBack (NavForward) is emitted on exactly the
\* ticks where the horizontal gaze detector returns LOOK_LEFT (LOOK_RIGHT),
\* gy is beyond the deadzone with the matching sign and no navigation action
\* fired in the last 1.0 s
C40_DetectorStep ==
    /\ NavEmitted("NavBack") <=>
          (horiz_event' = "LOOK_LEFT" /\ sample'.gy < -GYRO_DEADZONE /\ NavQuiet)
    /\ NavEmitted("NavForward") <=>
          (horiz_event' = "LOOK_RIGHT" /\ sample'.gy > GYRO_DEADZONE /\ NavQuiet)
C40_FusionFollowsDetector == [][InFusion' => C40_DetectorStep]_vars

\* the head turn is under way when the gaze reaches 150 ms: NavBack
C40_TurnDuringHold ==
    /\ InFusion
    /\ Emitted({"NavBack"})
    /\ script.gaze.class = "LOOK_LEFT"
    /\ now - script.gaze.since = HGAZE_MIN_DURATION

\* the gaze has been held for 200 ms, the head turns left, no navigation
\* action has ever fired, and the tick emits nothing: the detector returned
\* LOOK_LEFT 50 ms earlier, with the head still, and is in its own cooldown
C40_LateTurnUnanswered ==
    /\ InFusion
    /\ script.gaze.class = "LOOK_LEFT"
    /\ now - script.gaze.since = HGAZE_MIN_DURATION + FusionStep
    /\ sample.gy < -GYRO_DEADZONE
    /\ ctl.last_nav_time = 0
    /\ hgaze.last_trigger_time = now - FusionStep
    /\ horiz_event = "NONE"
    /\ actions = <<>>

====
